---- MODULE Spec2Model ----
(***************************************************************************)
(* Model of the asynchronous ingestion pipeline of module_6:               *)
(*   worker/consumer.py  - on_message, handle_scrape_new_data,             *)
(*                         handle_recompute_analytics, _scrape_new_records *)
(*                         and main;                                       *)
(*   web/publisher.py, web/app - publish_task and the POST routes;         *)
(* and of the synchronous dashboard of module_5:                           *)
(*   src/app.py - pull_data, src/run_pipeline.py - run_full_pipeline,      *)
(*   src/subprocess/scrape.py - GradCafeScraper.scrape_data.               *)
(* The sink (PostgreSQL) is modelled by its committed tables and by the    *)
(* write set of the one open transaction; the broker by the deliveries it  *)
(* makes and the settlements (ack / nack) it receives; the remote listing  *)
(* by the pages it serves during one scan.                                 *)
(*                                                                         *)
(* Strings that the code compares (urls, hrefs) are sequences of code      *)
(* points, compared as Python compares str.  Two fixed substrings are      *)
(* written as one code point each: 104 ("h") stands for the origin         *)
(* "https://www.thegradcafe.com" and 47 ("/") for "/result/"; 48..57 are   *)
(* the digits.  <<-1>> is None / SQL NULL.                                 *)
(***************************************************************************)
EXTENDS Integers, Sequences, FiniteSets, Bags, TLC

VARIABLES
    \* broker and on_message
    tag,            \* number of deliveries made so far (the delivery tag)
    body,           \* body of the message being / last processed
    msg,            \* on_message's local msg
    handler,        \* on_message's local handler
    pc,             \* position of the consumer
    events,         \* what happened for the current delivery, in order
    unacked,        \* messages pushed to this consumer and not yet settled
    \* the sink: committed tables
    applicants,             \* bag of rows
    ingestion_watermarks,   \* source -> [last_seen, updated_at]
    analytics_summary,      \* content of the materialized view
    \* the open transaction's write set
    tx_rows, tx_wm, tx_view,
    \* locals of handle_scrape_new_data
    last_seen, existing_urls, failed,
    \* _scrape_new_records
    listing, max_pages, page, records, fetched, fetch_failed, scan_pc,
    timeline,       \* the fetches, row loops and sleeps of the scan, in order
    \* the committed sink when the current message was delivered
    pre,
    \* the remote listing while it stays the same from one task to the next
    site,
    \* a second consumer instance running handle_scrape_new_data
    peer_pc, peer_last_seen, peer_records, peer_rows, peer_wm,
    \* the dashboard: a route of web/app and publish_task
    requests,       \* number of POST requests received so far
    route,          \* path of the request being / last served
    web_pc,         \* position of the dashboard
    calls,          \* the calls of publish_task made for this request
    conn,           \* the broker connection of this publish_task call
    pub_failed,     \* the call of publish_task that raised, if any
    pub_exit,       \* how publish_task ended
    response,       \* what the route answered
    queue,          \* the messages published and not yet consumed
    handled,        \* what the worker did with the messages it consumed
    \* main() of the worker
    main_pc,        \* position of main
    attempt,        \* main's loop variable
    boot,           \* the connection attempts and the sleeps of main, in order
    \* the synchronous dashboard of module_5: POST /pull_data
    req_pc,         \* position of each request thread
    pipeline_lock,  \* the thread that holds pipeline_lock, 0 when it is free
    pipeline_calls, \* calls of run_full_pipeline made by each request
    reply,          \* what each request was answered
    steps,          \* the run_step calls of the running pipeline, in order
    waited,         \* whether each request has blocked on pipeline_lock
    pulls,          \* number of POST /pull_data requests received so far
    \* GradCafeScraper.scrape_data
    data,           \* self.data
    max_entries,    \* self.max_entries
    scraper_page,   \* scrape_data's local page
    requested,      \* the pages scrape_data has fetched, in order
    scraper_pc,     \* position of scrape_data
    path,           \* scrape_data's local path (module_2)
    \* load_new_records (module_5)
    entries,        \* data: the entries read from the file
    other_rows,     \* rows of the table whose url is in no entry of the file
    next_entry,     \* index of the entry the insert loop is at
    loader_pc,      \* position of load_new_records
    \* the consumer's connections to the sink
    sink_conns      \* number of connections open

brokerVars == <<tag, body, msg, handler, events, unacked>>
sinkVars   == <<applicants, ingestion_watermarks, analytics_summary>>
txVars     == <<tx_rows, tx_wm, tx_view>>
localVars  == <<last_seen, existing_urls, failed>>
scanVars   == <<listing, max_pages, page, records, fetched, fetch_failed, scan_pc,
                timeline>>
\* state of the other processes of the system
peerVars == <<peer_pc, peer_last_seen, peer_records, peer_rows, peer_wm>>
webVars == <<requests, route, web_pc, calls, conn, pub_failed, pub_exit,
             response, queue, handled>>
consumerVars == <<brokerVars, pc, sinkVars, txVars, localVars, scanVars, pre>>
mainVars == <<main_pc, attempt, boot>>
dashVars == <<req_pc, pipeline_lock, pipeline_calls, reply, steps, waited,
              pulls>>
scraperVars == <<data, max_entries, scraper_page, requested, scraper_pc>>
\* state outside the consumer, its peer and the asynchronous dashboard
loaderVars == <<entries, other_rows, next_entry, loader_pc>>
lateVars == <<path, loaderVars, sink_conns>>
restVars == <<mainVars, dashVars, scraperVars, lateVars>>
auxVars == <<site, peerVars, webVars, restVars>>

vars == <<consumerVars, auxVars>>

-----------------------------------------------------------------------------
(* Bounds of the model *)

MaxDeliveries == 2      \* messages the broker delivers in one behaviour
MaxListingPages == 2    \* pages of the remote listing that hold a table
MaxListingRows == 3     \* rows of the listing a direct call of the scan reads
MaxSiteRows == 2        \* rows the site lists when a scrape task scans it
MaxPagesArg == 2        \* greatest max_pages a direct call of the scan passes
MaxBatch == 2           \* records of a batch handed to the transaction directly
MaxRuns == 2            \* runs of the transaction in one behaviour
MaxPairRows == 1        \* rows the site lists when two consumers scan it
MaxRequests == 2        \* POST requests the dashboard receives in one behaviour
MaxThreads == 2         \* request threads of the synchronous dashboard
MaxPulls == 3           \* POST requests the module_5 dashboard receives
MaxScraperPages == 4    \* pages scrape_data requests in one behaviour
MaxEntriesArg == 2      \* greatest max_entries set on a scraper besides 30000
MaxFile == 2            \* entries of the file load_new_records reads

(* Program constants *)

DefaultMaxPages == 50   \* _scrape_new_records(existing_urls, max_pages=50)
ExistingLimit == 100    \* ... ORDER BY date_added DESC LIMIT 100
MinCells == 4           \* if len(tds) < 4: continue
PolitenessDelay == 1    \* time.sleep(1)
PrefetchCount == 1      \* channel.basic_qos(prefetch_count=1)
Retries == 10           \* retries = 10
RetryDelay == 3         \* time.sleep(3)
DefaultMaxEntries == 30000  \* self.max_entries = 30000
LoaderLimit == 100      \* ... WHERE url IS NOT NULL LIMIT 100

-----------------------------------------------------------------------------
(* Strings *)

Null == << -1 >>
EmptyStr == << >>

RECURSIVE StrLess(_, _)
StrLess(a, b) ==
    IF b = << >> THEN FALSE
    ELSE IF a = << >> THEN TRUE
    ELSE IF a[1] # b[1] THEN a[1] < b[1]
    ELSE StrLess(Tail(a), Tail(b))

StrGreater(a, b) == StrLess(b, a)

StrLeq(a, b) == a = b \/ StrLess(a, b)

\* Python's "x or ''" on an optional string
OrEmpty(x) == IF x = Null \/ x = EmptyStr THEN EmptyStr ELSE x

\* Python's truth value of an optional string
Truthy(x) == x # Null /\ x # EmptyStr

-----------------------------------------------------------------------------
(* The remote listing *)

Origin == << 104 >>
NoLink == Null
HrefNine == << 47, 57 >>            \* "/result/9"
HrefTen == << 47, 49, 48 >>         \* "/result/10"
HrefAbsNine == << 104, 47, 57 >>    \* "https://www.thegradcafe.com/result/9"

Header == [cells |-> 0, href |-> NoLink, program |-> "header"]

RowKinds ==
    { [cells |-> 2, href |-> HrefNine, program |-> "spacer"],
      [cells |-> 4, href |-> NoLink, program |-> "PhD"],
      [cells |-> 4, href |-> HrefNine, program |-> "Masters"],
      [cells |-> 4, href |-> HrefTen, program |-> "Other"],
      [cells |-> 5, href |-> HrefAbsNine, program |-> "Masters"] }

SeqsUpTo(S, n) == UNION { [1..k -> S] : k \in 0..n }

\* the ways to cut n rows into at most MaxListingPages pages: c[i] is the
\* number of rows on pages 1..i
Cuts(n) ==
    { c \in SeqsUpTo(0..n, MaxListingPages) :
        /\ \A i \in 1..(Len(c) - 1) : c[i] <= c[i + 1]
        /\ IF c = << >> THEN n = 0 ELSE c[Len(c)] = n }

\* a page's rows as table.find_all("tr") returns them: the header, then the rest
Paginate(rows, c) ==
    [i \in 1..Len(c) |->
        <<Header>> \o SubSeq(rows, (IF i = 1 THEN 0 ELSE c[i - 1]) + 1, c[i])]

\* the listings of at most n rows (headers not counted) on at most
\* MaxListingPages pages
ListingsOf(n) ==
    UNION { { Paginate(rows, c) : c \in Cuts(Len(rows)) } :
            rows \in SeqsUpTo(RowKinds, n) }

Listings == ListingsOf(MaxListingRows)

SiteListings == ListingsOf(MaxSiteRows)

PairListings == ListingsOf(MaxPairRows)

NoTable == << >>

\* what page p of the listing holds: pages past the last one hold no table
PageAt(lst, p) == IF p \in 1..Len(lst) THEN lst[p] ELSE NoTable

-----------------------------------------------------------------------------
(* _scrape_new_records *)

EntryUrl(href) ==
    IF href = NoLink THEN Null
    ELSE IF href[1] = 47 THEN Origin \o href
    ELSE href

Urls == { EntryUrl(r.href) : r \in RowKinds } \ {Null}

MakeRecord(row, url) == [url |-> url, program |-> row.program]

\* faulty variant: the stop condition never fires
SeenStopNever(url, existing) == FALSE

\* faulty variant: a row without a link counts as seen
SeenStopOnMissing(url, existing) == url = Null \/ url \in existing

\* if entry_url and entry_url in existing_urls: stop = True; break
SeenStop(url, existing) == Truthy(url) /\ url \in existing

\* faulty variant: every row is taken for a data row
IsDataRowAny(row) == TRUE

\* if len(tds) < 4: continue
IsDataRow(row) == row.cells >= MinCells

\* the inner loop over rows[i], i = 1 .. len(rows)-1 (rows[0] is skipped);
\* rows is 1-based here, so the loop starts at 2
RECURSIVE ScanRowsFrom(_, _, _, _)
ScanRowsFrom(rows, i, existing, acc) ==
    IF i > Len(rows) THEN [recs |-> acc, stop |-> FALSE]
    ELSE IF ~IsDataRow(rows[i]) THEN ScanRowsFrom(rows, i + 1, existing, acc)
    ELSE LET url == EntryUrl(rows[i].href) IN
         IF SeenStop(url, existing) THEN [recs |-> acc, stop |-> TRUE]
         ELSE ScanRowsFrom(rows, i + 1, existing,
                           Append(acc, MakeRecord(rows[i], url)))

\* faulty variant: the records of a page come out last row first
ScanRowsLastFirst(rows, existing) ==
    LET r == ScanRowsFrom(rows, 2, existing, << >>) IN
    [recs |-> [i \in 1..Len(r.recs) |-> r.recs[Len(r.recs) + 1 - i]],
     stop |-> r.stop]

ScanRows(rows, existing) == ScanRowsFrom(rows, 2, existing, << >>)

\* faulty variant: range(1, max_pages + 2)
LoopContinuesOffByOne(p, maxp) == p <= maxp + 1

\* for page in range(1, max_pages + 1)
LoopContinues(p, maxp) == p <= maxp

ScanStart(existing, maxp, lst) ==
    /\ listing' = lst
    /\ max_pages' = maxp
    /\ existing_urls' = existing
    /\ page' = 1
    /\ records' = << >>
    /\ fetched' = << >>
    /\ timeline' = << >>
    /\ fetch_failed' = FALSE
    /\ scan_pc' = IF LoopContinues(1, maxp) THEN "loop" ELSE "returned"

\* faulty variant: a failed fetch drops what was collected
OnFetchErrorDrops(recs) == << >>

\* except Exception: log.exception(...); break: records stays what it is
OnFetchError(recs) == recs

\* entries of the scan's timeline
Fetch(p) == [op |-> "fetch", n |-> p]
RowLoop(p) == [op |-> "rows", n |-> p]
Sleep(secs) == [op |-> "sleep", n |-> secs]

\* faulty variant: no pause after a page
AfterPageNoPause(p, stop) == << RowLoop(p) >>

\* the row loop of page p, then: if stop: break; time.sleep(1)
AfterPage(p, stop) ==
    IF stop THEN << RowLoop(p) >> ELSE << RowLoop(p), Sleep(PolitenessDelay) >>

\* faulty variant: a page without a table is passed over
HasTableAlways(pg) == TRUE

\* table = soup.find("table"); if not table: break
HasTable(pg) == pg # NoTable

\* one iteration of the loop over pages
ScanPage ==
    /\ scan_pc = "loop"
    /\ fetched' = Append(fetched, page)
    /\ \/ \* _fetch_page raises: break
          /\ fetch_failed' = TRUE
          /\ records' = OnFetchError(records)
          /\ scan_pc' = "returned"
          /\ timeline' = Append(timeline, Fetch(page))
          /\ UNCHANGED page
       \/ \* no table: break
          /\ ~HasTable(PageAt(listing, page))
          /\ scan_pc' = "returned"
          /\ timeline' = Append(timeline, Fetch(page))
          /\ UNCHANGED <<records, page, fetch_failed>>
       \/ /\ HasTable(PageAt(listing, page))
          /\ LET r == ScanRows(PageAt(listing, page), existing_urls) IN
             /\ records' = records \o r.recs
             /\ timeline' = Append(timeline, Fetch(page)) \o AfterPage(page, r.stop)
             /\ IF r.stop
                  THEN /\ scan_pc' = "returned"
                       /\ page' = page
                  ELSE \* time.sleep(1), next page
                       /\ page' = page + 1
                       /\ scan_pc' = IF LoopContinues(page + 1, max_pages)
                                       THEN "loop" ELSE "returned"
          /\ UNCHANGED fetch_failed
    /\ UNCHANGED <<listing, max_pages, existing_urls>>
    /\ UNCHANGED <<brokerVars, pc, sinkVars, txVars, last_seen, failed, pre>>
    /\ UNCHANGED auxVars

\* the whole loop over pages, from page p on with acc collected so far; the
\* fetch of page failAt raises (0: no fetch raises)
RECURSIVE ScanFrom(_, _, _, _, _, _)
ScanFrom(lst, existing, maxp, failAt, p, acc) ==
    IF ~LoopContinues(p, maxp) THEN acc
    ELSE IF p = failAt THEN OnFetchError(acc)
    ELSE IF ~HasTable(PageAt(lst, p)) THEN acc
    ELSE LET r == ScanRows(PageAt(lst, p), existing) IN
         IF r.stop THEN acc \o r.recs
         ELSE ScanFrom(lst, existing, maxp, failAt, p + 1, acc \o r.recs)

\* records = _scrape_new_records(existing, maxp)
ScrapeNewRecords(lst, existing, maxp, failAt) ==
    ScanFrom(lst, existing, maxp, failAt, 1, << >>)

-----------------------------------------------------------------------------
(* worker/etl/incremental_scraper.py: scrape_new_records *)

\* "/result/", a backslash, a letter d
SharedNeedle == << 47, 92, 100 >>

\* re.compile(r"/result/\\d+") searched in an href: the pattern of this raw
\* string is "/result/", then a backslash, then one or more letters d
SharedPattern(href) ==
    \E i \in 1..(Len(href) - 2) : SubSeq(href, i, i + 2) = SharedNeedle

\* _extract_entry_url(row): row.find("a", href=<the pattern>), then the url
SharedExtractEntryUrl(row) ==
    IF row.href # NoLink /\ SharedPattern(row.href)
      THEN EntryUrl(row.href) ELSE Null

\* for i in range(1, len(rows)): ... records.append(_parse_row(rows[i], ...))
RECURSIVE SharedRowsFrom(_, _, _, _)
SharedRowsFrom(rows, i, existing, acc) ==
    IF i > Len(rows) THEN [recs |-> acc, stop |-> FALSE]
    ELSE IF rows[i].cells < MinCells
      THEN SharedRowsFrom(rows, i + 1, existing, acc)
    ELSE LET entry_url == SharedExtractEntryUrl(rows[i]) IN
         IF Truthy(entry_url) /\ entry_url \in existing
           THEN [recs |-> acc, stop |-> TRUE]
           ELSE SharedRowsFrom(rows, i + 1, existing,
                               Append(acc, MakeRecord(rows[i], entry_url)))

\* for page in range(1, max_pages + 1): the pages fetched and the records,
\* the fetch of page failAt raising OSError (0: no fetch raises)
RECURSIVE SharedScanFrom(_, _, _, _, _, _)
SharedScanFrom(lst, existing, maxp, failAt, p, acc) ==
    IF p > maxp THEN acc
    ELSE LET got == [acc EXCEPT !.pages = Append(@, p)] IN
         IF p = failAt THEN got
         ELSE IF PageAt(lst, p) = NoTable THEN got
         ELSE LET r == SharedRowsFrom(PageAt(lst, p), 2, existing, << >>)
                  more == [got EXCEPT !.recs = @ \o r.recs]
              IN  IF r.stop THEN more
                  ELSE SharedScanFrom(lst, existing, maxp, failAt, p + 1, more)

\* scrape_new_records(existing_urls, max_pages)
SharedScrapeNewRecords(lst, existing, maxp, failAt) ==
    SharedScanFrom(lst, existing, maxp, failAt, 1,
                   [pages |-> << >>, recs |-> << >>])

-----------------------------------------------------------------------------
(* The sink *)

Source == "gradcafe"

EmptyTable == << >>

RowOf(rec) == [url |-> rec.url, program |-> rec.program]

\* faulty variant: the url column has no unique index to conflict on
ConflictsNever(tbl, row) == FALSE

\* the unique constraint on url: NULLs never conflict
Conflicts(tbl, row) ==
    row.url # Null /\ \E r \in BagToSet(tbl) : r.url = row.url

\* faulty variant: a plain INSERT, without ON CONFLICT
InsertRowNoConflict(committed, ins, row) == ins (+) SetToBag({row})

\* INSERT ... ON CONFLICT (url) DO NOTHING, inside the open transaction
InsertRow(committed, ins, row) ==
    IF Conflicts(committed (+) ins, row) THEN ins
    ELSE ins (+) SetToBag({row})

\* faulty variant: an insert does not wait for an uncommitted row
InsertWaitsNever(recs, others) == FALSE

\* the unique index makes an insert wait while another open transaction holds
\* an uncommitted row with the same url
InsertWaits(recs, others) ==
    \E i \in 1..Len(recs) :
        /\ recs[i].url # Null
        /\ \E r \in BagToSet(others) : r.url = recs[i].url

\* the upsert waits while another open transaction holds the source's row
UpsertWaits(others) == Source \in DOMAIN others

RECURSIVE InsertAll(_, _, _)
InsertAll(committed, ins, recs) ==
    IF recs = << >> THEN ins
    ELSE InsertAll(committed, InsertRow(committed, ins, RowOf(Head(recs))),
                   Tail(recs))

\* SELECT last_seen FROM ingestion_watermarks WHERE source = 'gradcafe'
SelectLastSeen(tbl) ==
    IF Source \in DOMAIN tbl THEN tbl[Source].last_seen ELSE Null

\* SELECT url FROM applicants WHERE url IS NOT NULL ORDER BY date_added DESC
\* LIMIT 100, as a set.  The table of the model never holds more than
\* ExistingLimit rows (WindowCoversTable), so the window is the whole table.
SelectExistingUrls(tbl) == { r.url : r \in BagToSet(tbl) } \ {Null}

\* INSERT INTO ingestion_watermarks ... ON CONFLICT (source) DO UPDATE
UpsertWatermark(tbl, v, now) ==
    [s \in DOMAIN tbl \cup {Source} |->
        IF s = Source THEN [last_seen |-> v, updated_at |-> now] ELSE tbl[s]]

MergeWatermarks(tbl, delta) ==
    [s \in DOMAIN tbl \cup DOMAIN delta |->
        IF s \in DOMAIN delta THEN delta[s] ELSE tbl[s]]

\* what REFRESH MATERIALIZED VIEW analytics_summary computes from the table
ViewOf(tbl) == BagCardinality(tbl)

NoRefresh == -1

\* faulty variant: the loop never raises max_url above last_seen
MaxUrlKeepsStart(recs, start) == start

\* faulty variant: the greatest url of the batch, last_seen ignored
MaxUrlFromBatchOnly(recs, start) ==
    IF recs = << >> THEN Null
    ELSE LET S == { OrEmpty(recs[i].url) : i \in 1..Len(recs) }
         IN  CHOOSE m \in S : \A u \in S : StrLeq(u, m)

\* max_url = last_seen; for rec in records: url = rec.get("url") or "";
\* if url > (max_url or ""): max_url = url
RECURSIVE MaxUrl(_, _)
MaxUrl(recs, start) ==
    IF recs = << >> THEN start
    ELSE LET url == OrEmpty(Head(recs).url) IN
         MaxUrl(Tail(recs),
                IF StrGreater(url, OrEmpty(start)) THEN url ELSE start)

-----------------------------------------------------------------------------
(* Messages *)

Bodies ==
    { [json |-> "invalid", fields |-> << >>],
      [json |-> "array", fields |-> << >>],
      [json |-> "object", fields |-> [kind |-> "scrape_new_data", payload |-> "{}"]],
      [json |-> "object", fields |-> [kind |-> "recompute_analytics", payload |-> "{}"]],
      [json |-> "object", fields |-> [kind |-> "bogus", payload |-> "{}"]],
      [json |-> "object", fields |-> [payload |-> "{}"]] }

Unbound == [type |-> "unbound", fields |-> << >>]

\* json.loads(body): the parsed value, or "raises"
JsonLoads(b) ==
    IF b.json = "invalid" THEN [type |-> "raises", fields |-> << >>]
    ELSE IF b.json = "array" THEN [type |-> "list", fields |-> << >>]
    ELSE [type |-> "dict", fields |-> b.fields]

\* d.get(key, default)
DictGet(d, key, default) == IF key \in DOMAIN d THEN d[key] ELSE default

TASK_MAP ==
    [scrape_new_data |-> "handle_scrape_new_data",
     recompute_analytics |-> "handle_recompute_analytics"]

\* faulty variant: an unknown kind falls back to a handler
TaskMapGetDefaultHandler(kind) ==
    IF kind \in DOMAIN TASK_MAP THEN TASK_MAP[kind]
    ELSE "handle_recompute_analytics"

\* TASK_MAP.get(kind)
TaskMapGet(kind) ==
    IF kind \in DOMAIN TASK_MAP THEN TASK_MAP[kind] ELSE "None"

-----------------------------------------------------------------------------
(* Initial state: an empty sink, an idle consumer *)

NoFailure == [stmt |-> "none", done |-> 0]

NoResponse == [status |-> 0, json |-> << >>]

\* the dashboard has served no request
WebInit ==
    /\ requests = 0
    /\ route = "none"
    /\ web_pc = "idle"
    /\ calls = << >>
    /\ conn = "none"
    /\ pub_failed = "none"
    /\ pub_exit = "none"
    /\ response = NoResponse
    /\ queue = << >>
    /\ handled = << >>

\* the second consumer has no task
\* an entry of main's log
ConnectOk == [op |-> "connect", ok |-> TRUE, secs |-> 0]
ConnectRefused == [op |-> "connect", ok |-> FALSE, secs |-> 0]
Slept(secs) == [op |-> "sleep", ok |-> TRUE, secs |-> secs]

\* main has connected at its first attempt and is in start_consuming
MainStarted ==
    /\ main_pc = "consuming"
    /\ attempt = 1
    /\ boot = << ConnectOk >>

Threads == 1..MaxThreads

NoReply == [status |-> 0, body |-> "none", location |-> "none", pipeline |-> "none"]

\* the dashboard of module_5 has received no request
DashInit ==
    /\ req_pc = [t \in Threads |-> "idle"]
    /\ pipeline_lock = 0
    /\ pipeline_calls = [t \in Threads |-> 0]
    /\ reply = [t \in Threads |-> NoReply]
    /\ steps = << >>
    /\ waited = [t \in Threads |-> FALSE]
    /\ pulls = 0

\* GradCafeScraper(): self.data = [], self.max_entries = 30000
ScraperInit ==
    /\ data = << >>
    /\ max_entries = DefaultMaxEntries
    /\ scraper_page = 1
    /\ requested = << >>
    /\ scraper_pc = "idle"

Unset == << -2 >>

\* no loader runs, no connection to the sink is open
LateInit ==
    /\ path = Unset
    /\ entries = << >>
    /\ other_rows = 0
    /\ next_entry = 1
    /\ loader_pc = "idle"
    /\ sink_conns = 0

PeerInit ==
    /\ peer_pc = "idle"
    /\ peer_last_seen = Null
    /\ peer_records = << >>
    /\ peer_rows = EmptyBag
    /\ peer_wm = EmptyTable

Init ==
    /\ tag = 0
    /\ body = [json |-> "invalid", fields |-> << >>]
    /\ msg = Unbound
    /\ handler = "None"
    /\ pc = "idle"
    /\ events = << >>
    /\ unacked = 0
    /\ site = << >>
    /\ PeerInit
    /\ WebInit
    /\ MainStarted
    /\ DashInit
    /\ ScraperInit
    /\ LateInit
    /\ applicants = EmptyBag
    /\ ingestion_watermarks = EmptyTable
    /\ analytics_summary = 0
    /\ tx_rows = EmptyBag
    /\ tx_wm = EmptyTable
    /\ tx_view = NoRefresh
    /\ last_seen = Null
    /\ existing_urls = {}
    /\ failed = NoFailure
    /\ listing = << >>
    /\ max_pages = DefaultMaxPages
    /\ page = 1
    /\ records = << >>
    /\ fetched = << >>
    /\ timeline = << >>
    /\ fetch_failed = FALSE
    /\ scan_pc = "off"
    /\ pre = [applicants |-> EmptyBag, ingestion_watermarks |-> EmptyTable,
              analytics_summary |-> 0]

-----------------------------------------------------------------------------
(* on_message *)

Sink == [applicants |-> applicants,
         ingestion_watermarks |-> ingestion_watermarks,
         analytics_summary |-> analytics_summary]

\* messages pushed to the consumer that on_message has not been called for
Buffered == unacked - (IF pc = "idle" THEN 0 ELSE 1)

\* faulty variant: no basic_qos, the broker pushes whatever the queue holds
BrokerMayPushNoQos(n) == TRUE

\* channel.basic_qos(prefetch_count=1): the broker pushes a message to this
\* consumer only while fewer than prefetch_count are unsettled
BrokerMayPush(n) == n < PrefetchCount

\* the broker pushes the next message of the queue to the consumer
BrokerPush ==
    /\ main_pc = "consuming"
    /\ pc # "crashed"
    /\ BrokerMayPush(unacked)
    /\ tag + Buffered < MaxDeliveries
    /\ unacked' = unacked + 1
    /\ UNCHANGED <<tag, body, msg, handler, events, pc, sinkVars, txVars,
                   localVars, scanVars, pre, auxVars>>

\* start_consuming calls on_message for the next pushed message; the
\* callback runs to its end before the next one is called
Deliver ==
    /\ pc = "idle"
    /\ Buffered > 0
    /\ \E b \in Bodies : body' = b
    /\ tag' = tag + 1
    /\ msg' = Unbound
    /\ handler' = "None"
    /\ events' = << >>
    /\ pc' = "received"
    /\ pre' = Sink
    /\ failed' = NoFailure
    /\ last_seen' = Null
    /\ existing_urls' = {}
    /\ records' = << >>
    /\ fetch_failed' = FALSE
    /\ UNCHANGED <<unacked, sinkVars, txVars>>
    /\ UNCHANGED <<listing, max_pages, page, fetched, scan_pc, timeline>>
    /\ UNCHANGED auxVars

\* ch.basic_nack(delivery_tag=..., requeue=False) for an unknown kind
UnknownKindSettlement == "nack"

\* msg = json.loads(body); kind = msg.get("kind", ""); TASK_MAP.get(kind)
OnMessageParse ==
    /\ pc = "received"
    /\ LET m == JsonLoads(body) IN
       \/ \* json.loads raises: msg is never bound
          /\ m.type = "raises"
          /\ pc' = "raised"
          /\ UNCHANGED <<msg, handler, events, unacked>>
       \/ \* msg.get raises AttributeError: msg is bound to a non-dict
          /\ m.type = "list"
          /\ msg' = m
          /\ pc' = "raised"
          /\ UNCHANGED <<handler, events, unacked>>
       \/ /\ m.type = "dict"
          /\ msg' = m
          /\ LET h == TaskMapGet(DictGet(m.fields, "kind", "")) IN
             /\ handler' = h
             /\ IF h = "None"
                  THEN /\ events' = Append(events, UnknownKindSettlement)
                       /\ unacked' = unacked - 1
                       /\ pc' = "idle"
                  ELSE /\ events' = events
                       /\ unacked' = unacked
                       /\ pc' = "dispatched"
    /\ UNCHANGED <<tag, body, sinkVars, txVars, localVars, scanVars, pre>>
    /\ UNCHANGED auxVars

\* handler(payload): _get_db_conn() connects or raises
HandlerConnect ==
    /\ pc = "dispatched"
    /\ events' = Append(events, "dispatch")
    /\ \/ /\ pc' = IF handler = "handle_scrape_new_data"
                     THEN "h_read" ELSE "h_refresh"
          /\ sink_conns' = sink_conns + 1
          /\ UNCHANGED failed
       \/ /\ failed' = [stmt |-> "connect", done |-> 0]
          /\ pc' = "raised"
          /\ UNCHANGED sink_conns
    /\ UNCHANGED <<tag, body, msg, handler, unacked, sinkVars, txVars,
                   last_seen, existing_urls, scanVars, pre>>
    /\ UNCHANGED <<site, peerVars, webVars, mainVars, dashVars, scraperVars,
                   path, loaderVars>>

\* faulty variant: basic_nack(requeue=True)
ExceptSettlementRequeue == "nack_requeue"

\* ch.basic_nack(delivery_tag=..., requeue=False) in the except clause
ExceptSettlement == "nack"

\* except Exception as exc: log.exception(..., msg.get("kind", "?"), exc); nack
OnMessageExcept ==
    /\ pc = "raised"
    /\ IF msg.type = "dict"
         THEN /\ events' = Append(events, ExceptSettlement)
              /\ unacked' = unacked - 1
              /\ pc' = "idle"
         ELSE \* msg.get raises inside the except clause: on_message raises,
              \* start_consuming ends and the message stays unsettled
              /\ events' = Append(events, "crash")
              /\ unacked' = unacked
              /\ pc' = "crashed"
    /\ UNCHANGED <<tag, body, msg, handler, sinkVars, txVars, localVars,
                   scanVars, pre>>
    /\ UNCHANGED auxVars

\* ch.basic_ack(delivery_tag=...)
OnMessageAck ==
    /\ pc = "ack"
    /\ events' = Append(events, "ack")
    /\ unacked' = unacked - 1
    /\ pc' = "idle"
    /\ UNCHANGED <<tag, body, msg, handler, sinkVars, txVars, localVars,
                   scanVars, pre>>
    /\ UNCHANGED auxVars

-----------------------------------------------------------------------------
(* The transaction of a handler *)

Tx == [rows |-> tx_rows, wm |-> tx_wm, view |-> tx_view]

\* conn.commit(): the write set becomes visible
CommitTx(db, t) ==
    [applicants |-> db.applicants (+) t.rows,
     ingestion_watermarks |-> MergeWatermarks(db.ingestion_watermarks, t.wm),
     analytics_summary |->
        IF t.view = NoRefresh THEN db.analytics_summary ELSE t.view]

\* conn.rollback(): the write set is dropped
RollbackTx(db, t) == db

SetSink(db) ==
    /\ applicants' = db.applicants
    /\ ingestion_watermarks' = db.ingestion_watermarks
    /\ analytics_summary' = db.analytics_summary

ClearTx ==
    /\ tx_rows' = EmptyBag
    /\ tx_wm' = EmptyTable
    /\ tx_view' = NoRefresh

-----------------------------------------------------------------------------
(* handle_scrape_new_data *)

\* the two SELECTs, then the call _scrape_new_records(existing_urls), the
\* site holding one of the listings of S when the scan starts
ScrapeReadFrom(S) ==
    /\ pc = "h_read"
    /\ \/ /\ last_seen' = SelectLastSeen(ingestion_watermarks)
          /\ \E lst \in S :
                ScanStart(SelectExistingUrls(applicants), DefaultMaxPages, lst)
          /\ pc' = "h_scan"
          /\ UNCHANGED failed
       \/ /\ failed' = [stmt |-> "select", done |-> 0]
          /\ pc' = "h_except"
          /\ UNCHANGED <<last_seen, existing_urls, scanVars>>
    /\ UNCHANGED <<brokerVars, sinkVars, txVars, pre>>
    /\ UNCHANGED auxVars

\* the remote listing is whatever the site holds when the scan starts
ScrapeRead == ScrapeReadFrom(SiteListings)

\* the remote listing is the same at every scan
FeedRead == ScrapeReadFrom({site})

\* the remote listing is whatever the site holds when the scan starts
PairRead == ScrapeReadFrom(PairListings)

\* faulty variant: no early return, an empty scan goes on to the statements
NoRecordsNever(recs) == FALSE

\* if not records:
NoRecords(recs) == recs = << >>

\* records = _scrape_new_records(...) has returned; if not records: commit
ScrapeAfterScan ==
    /\ pc = "h_scan"
    /\ scan_pc = "returned"
    /\ scan_pc' = "off"
    /\ listing' = << >>
    /\ fetched' = << >>
    /\ timeline' = << >>
    /\ page' = 1
    /\ pc' = IF NoRecords(records) THEN "h_commit" ELSE "h_insert"
    /\ UNCHANGED <<max_pages, records, fetch_failed>>
    /\ UNCHANGED <<brokerVars, sinkVars, txVars, localVars, pre>>
    /\ UNCHANGED auxVars

\* for rec in records: cur.execute(insert_sql, ...): the first n inserts are
\* executed, and either n is all of them or the sink raises on the next one
ScrapeInsert ==
    /\ pc = "h_insert"
    /\ \E n \in 0..Len(records) :
        /\ ~InsertWaits(SubSeq(records, 1, n), peer_rows)
        /\ tx_rows' = InsertAll(applicants, tx_rows, SubSeq(records, 1, n))
        /\ IF n = Len(records)
             THEN /\ pc' = "h_upsert"
                  /\ UNCHANGED failed
             ELSE /\ pc' = "h_except"
                  /\ failed' = [stmt |-> "insert", done |-> n]
    /\ UNCHANGED <<brokerVars, sinkVars, tx_wm, tx_view, last_seen,
                   existing_urls, scanVars, pre>>
    /\ UNCHANGED auxVars

\* if max_url: upsert the watermark
ScrapeUpsert ==
    /\ pc = "h_upsert"
    /\ LET max_url == MaxUrl(records, last_seen) IN
       IF Truthy(max_url)
         THEN \/ /\ ~UpsertWaits(peer_wm)
                 /\ tx_wm' = UpsertWatermark(tx_wm, max_url, tag)
                 /\ pc' = "h_commit"
                 /\ UNCHANGED failed
              \/ /\ failed' = [stmt |-> "upsert", done |-> Len(records)]
                 /\ pc' = "h_except"
                 /\ UNCHANGED tx_wm
         ELSE /\ pc' = "h_commit"
              /\ UNCHANGED <<tx_wm, failed>>
    /\ UNCHANGED <<brokerVars, sinkVars, tx_rows, tx_view, last_seen,
                   existing_urls, scanVars, pre>>
    /\ UNCHANGED auxVars

-----------------------------------------------------------------------------
(* handle_recompute_analytics *)

\* REFRESH MATERIALIZED VIEW analytics_summary
RecomputeRefresh ==
    /\ pc = "h_refresh"
    /\ \/ /\ tx_view' = ViewOf(applicants (+) tx_rows)
          /\ pc' = "h_commit"
          /\ UNCHANGED failed
       \/ /\ failed' = [stmt |-> "refresh", done |-> 0]
          /\ pc' = "h_except"
          /\ UNCHANGED tx_view
    /\ UNCHANGED <<brokerVars, sinkVars, tx_rows, tx_wm, last_seen,
                   existing_urls, scanVars, pre>>
    /\ UNCHANGED auxVars

-----------------------------------------------------------------------------
(* Both handlers: commit, and the except clause *)

\* faulty variant: no finally clause, the connection stays open
CloseSkipped(n) == n

\* finally: conn.close()
Close(n) == n - 1

\* conn.commit(), then the handler returns: finally
HandlerCommit ==
    /\ pc = "h_commit"
    /\ \/ /\ SetSink(CommitTx(Sink, Tx))
          /\ ClearTx
          /\ events' = Append(events, "commit")
          /\ pc' = "ack"
          /\ sink_conns' = Close(sink_conns)
          /\ UNCHANGED failed
       \/ /\ failed' = [stmt |-> "commit", done |-> Len(records)]
          /\ pc' = "h_except"
          /\ UNCHANGED <<events, sinkVars, txVars, sink_conns>>
    /\ UNCHANGED <<tag, body, msg, handler, unacked, last_seen,
                   existing_urls, scanVars, pre>>
    /\ UNCHANGED <<site, peerVars, webVars, mainVars, dashVars, scraperVars,
                   path, loaderVars>>

\* faulty variant: the except clause commits what was written so far
ExceptCommits(db, t) == CommitTx(db, t)

\* except Exception: conn.rollback()
ExceptEffect(db, t) == RollbackTx(db, t)

\* faulty variant: the except clause does not re-raise, the handler returns
ExceptSwallows == "ack"

\* ... raise: the exception leaves the handler
ExceptExit == "raised"

\* except Exception: conn.rollback(); raise: finally
HandlerExcept ==
    /\ pc = "h_except"
    /\ SetSink(ExceptEffect(Sink, Tx))
    /\ ClearTx
    /\ events' = Append(events, "rollback")
    /\ pc' = ExceptExit
    /\ sink_conns' = Close(sink_conns)
    /\ UNCHANGED <<tag, body, msg, handler, unacked, localVars, scanVars,
                   pre>>
    /\ UNCHANGED <<site, peerVars, webVars, mainVars, dashVars, scraperVars,
                   path, loaderVars>>

-----------------------------------------------------------------------------
(* Specifications *)

Next ==
    \/ BrokerPush
    \/ Deliver
    \/ OnMessageParse
    \/ HandlerConnect
    \/ ScrapeRead
    \/ ScanPage
    \/ ScrapeAfterScan
    \/ ScrapeInsert
    \/ ScrapeUpsert
    \/ RecomputeRefresh
    \/ HandlerCommit
    \/ HandlerExcept
    \/ OnMessageAck
    \/ OnMessageExcept

\* the consumer, one message after another
Spec == Init /\ [][Next]_vars

\* a direct call _scrape_new_records(existing_urls, max_pages) on a listing
ScanInit ==
    /\ tag = 0
    /\ body = [json |-> "invalid", fields |-> << >>]
    /\ msg = Unbound
    /\ handler = "None"
    /\ pc = "idle"
    /\ events = << >>
    /\ unacked = 0
    /\ site = << >>
    /\ PeerInit
    /\ WebInit
    /\ MainStarted
    /\ DashInit
    /\ ScraperInit
    /\ LateInit
    /\ applicants = EmptyBag
    /\ ingestion_watermarks = EmptyTable
    /\ analytics_summary = 0
    /\ tx_rows = EmptyBag
    /\ tx_wm = EmptyTable
    /\ tx_view = NoRefresh
    /\ last_seen = Null
    /\ failed = NoFailure
    /\ pre = [applicants |-> EmptyBag, ingestion_watermarks |-> EmptyTable,
              analytics_summary |-> 0]
    /\ listing \in Listings
    /\ existing_urls \in SUBSET Urls
    /\ max_pages \in 0..MaxPagesArg
    /\ page = 1
    /\ records = << >>
    /\ fetched = << >>
    /\ timeline = << >>
    /\ fetch_failed = FALSE
    /\ scan_pc = IF LoopContinues(1, max_pages) THEN "loop" ELSE "returned"

ScanNext == ScanPage

ScanSpec == ScanInit /\ [][ScanNext]_vars

-----------------------------------------------------------------------------
(* A second consumer instance on the same sink, running one
   handle_scrape_new_data task in three steps *)

\* the two SELECTs and the scan (lines 193-207)
PeerRead ==
    /\ peer_pc = "idle"
    /\ peer_last_seen' = SelectLastSeen(ingestion_watermarks)
    /\ \E lst \in PairListings : \E failAt \in 0..Len(lst) :
          peer_records' = ScrapeNewRecords(lst, SelectExistingUrls(applicants),
                                           DefaultMaxPages, failAt)
    /\ peer_pc' = "scanned"
    /\ UNCHANGED <<peer_rows, peer_wm, site, webVars, restVars>>
    /\ UNCHANGED <<brokerVars, pc, sinkVars, txVars, localVars, scanVars, pre>>

\* if not records: commit, return; else the inserts and the upsert (208-254)
PeerWrite ==
    /\ peer_pc = "scanned"
    /\ IF peer_records = << >>
         THEN /\ peer_pc' = "done"
              /\ UNCHANGED <<peer_rows, peer_wm>>
         ELSE LET max_url == MaxUrl(peer_records, peer_last_seen) IN
              /\ ~InsertWaits(peer_records, tx_rows)
              /\ Truthy(max_url) => ~UpsertWaits(tx_wm)
              /\ peer_rows' = InsertAll(applicants, EmptyBag, peer_records)
              /\ peer_wm' = IF Truthy(max_url)
                               THEN UpsertWatermark(EmptyTable, max_url, tag)
                               ELSE EmptyTable
              /\ peer_pc' = "written"
    /\ UNCHANGED <<peer_last_seen, peer_records, site, webVars, restVars>>
    /\ UNCHANGED <<brokerVars, pc, sinkVars, txVars, localVars, scanVars, pre>>

\* conn.commit() (256)
PeerCommit ==
    /\ peer_pc = "written"
    /\ SetSink(CommitTx(Sink, [rows |-> peer_rows, wm |-> peer_wm,
                               view |-> NoRefresh]))
    /\ peer_rows' = EmptyBag
    /\ peer_wm' = EmptyTable
    /\ peer_pc' = "done"
    /\ UNCHANGED <<peer_last_seen, peer_records, site, webVars, restVars>>
    /\ UNCHANGED <<brokerVars, pc, txVars, localVars, scanVars, pre>>

\* the sink raises at commit: except Exception: conn.rollback(); raise
PeerRollback ==
    /\ peer_pc = "written"
    /\ peer_rows' = EmptyBag
    /\ peer_wm' = EmptyTable
    /\ peer_pc' = "done"
    /\ UNCHANGED <<peer_last_seen, peer_records, site, webVars, restVars>>
    /\ UNCHANGED <<brokerVars, pc, sinkVars, txVars, localVars, scanVars, pre>>

\* two consumers, each with one scrape_new_data message: the first one has
\* parsed its message and is about to call the handler
PairInit ==
    /\ tag = 1
    /\ body = [json |-> "object",
               fields |-> [kind |-> "scrape_new_data", payload |-> "{}"]]
    /\ msg = JsonLoads(body)
    /\ handler = TaskMapGet(DictGet(msg.fields, "kind", ""))
    /\ pc = "dispatched"
    /\ events = << >>
    /\ unacked = 1
    /\ site = << >>
    /\ PeerInit
    /\ WebInit
    /\ MainStarted
    /\ DashInit
    /\ ScraperInit
    /\ LateInit
    /\ applicants = EmptyBag
    /\ ingestion_watermarks = EmptyTable
    /\ analytics_summary = 0
    /\ tx_rows = EmptyBag
    /\ tx_wm = EmptyTable
    /\ tx_view = NoRefresh
    /\ last_seen = Null
    /\ existing_urls = {}
    /\ failed = NoFailure
    /\ listing = << >>
    /\ max_pages = DefaultMaxPages
    /\ page = 1
    /\ records = << >>
    /\ fetched = << >>
    /\ timeline = << >>
    /\ fetch_failed = FALSE
    /\ scan_pc = "off"
    /\ pre = [applicants |-> EmptyBag, ingestion_watermarks |-> EmptyTable,
              analytics_summary |-> 0]

PairNext ==
    \/ HandlerConnect
    \/ PairRead
    \/ ScanPage
    \/ ScrapeAfterScan
    \/ ScrapeInsert
    \/ ScrapeUpsert
    \/ HandlerCommit
    \/ HandlerExcept
    \/ OnMessageAck
    \/ OnMessageExcept
    \/ PeerRead
    \/ PeerWrite
    \/ PeerCommit
    \/ PeerRollback

PairSpec == PairInit /\ [][PairNext]_vars

-----------------------------------------------------------------------------
(* The dashboard: POST /scrape, POST /recompute (web/app) and publish_task
   (web/publisher.py) *)

Routes == {"/scrape", "/recompute"}

\* the kind each route publishes
RouteKind(r) == IF r = "/scrape" THEN "scrape_new_data" ELSE "recompute_analytics"

EmptyPayload == "{}"

\* payload or {}
PayloadOrEmpty(payload) == IF payload \in {"None", EmptyPayload} THEN EmptyPayload ELSE payload

\* faulty variant: the producer names the field as the route's answer does
JsonDumpsTask(kind, payload) ==
    [json |-> "object",
     fields |-> [task |-> kind, payload |-> PayloadOrEmpty(payload)]]

\* json.dumps({"kind": kind, "ts": ..., "payload": payload or {}})
JsonDumps(kind, payload) ==
    [json |-> "object",
     fields |-> [kind |-> kind, payload |-> PayloadOrEmpty(payload)]]

\* jsonify({"status": "queued", "task": kind}), 202
QueuedResponse(kind) ==
    [status |-> 202, json |-> [status |-> "queued", task |-> kind]]

\* faulty variant: the except clause of the route answers as if queued
PublishFailedResponseAccepted ==
    [status |-> 202, json |-> [error |-> "publish_failed"]]

\* jsonify({"error": "publish_failed"}), 503
PublishFailedResponse ==
    [status |-> 503, json |-> [error |-> "publish_failed"]]

\* the statements of _open_channel after BlockingConnection(params), in order
ChannelSteps == << "channel", "exchange_declare", "queue_declare", "queue_bind" >>

NextStep(st) ==
    IF st = "queue_bind" THEN "basic_publish"
    ELSE ChannelSteps[(CHOOSE i \in 1..Len(ChannelSteps) : ChannelSteps[i] = st) + 1]

\* a POST request reaches one of the two routes
WebRequest ==
    /\ web_pc = "idle"
    /\ requests < MaxRequests
    /\ requests' = requests + 1
    /\ \E r \in Routes : route' = r
    /\ calls' = << >>
    /\ conn' = "none"
    /\ pub_failed' = "none"
    /\ pub_exit' = "none"
    /\ response' = NoResponse
    /\ web_pc' = "route"
    /\ UNCHANGED <<queue, handled, consumerVars, site, peerVars, restVars>>

\* try: publish_task(kind, payload={}) ... conn = pika.BlockingConnection(params)
RouteCallPublish ==
    /\ web_pc = "route"
    /\ calls' = Append(calls, [kind |-> RouteKind(route), payload |-> EmptyPayload])
    /\ \/ /\ conn' = "open"
          /\ web_pc' = "channel"
          /\ UNCHANGED <<pub_failed, pub_exit>>
       \/ \* no connection is made: the exception leaves publish_task
          /\ pub_failed' = "connect"
          /\ pub_exit' = "raised"
          /\ web_pc' = "exited"
          /\ UNCHANGED conn
    /\ UNCHANGED <<requests, route, response, queue, handled>>
    /\ UNCHANGED <<consumerVars, site, peerVars, restVars>>

\* ch = conn.channel(), exchange_declare, queue_declare, queue_bind: each
\* returns or raises; nothing in _open_channel nor around its call at line 55
\* handles the exception, which leaves publish_task with conn as it is: open,
\* or closed when the failure was the loss of the connection
OpenChannelStep ==
    /\ web_pc \in { ChannelSteps[i] : i \in 1..Len(ChannelSteps) }
    /\ \/ /\ web_pc' = NextStep(web_pc)
          /\ UNCHANGED <<conn, pub_failed, pub_exit>>
       \/ /\ pub_failed' = web_pc
          /\ pub_exit' = "raised"
          /\ web_pc' = "exited"
          /\ \E c \in {"open", "closed"} : conn' = c
    /\ UNCHANGED <<requests, route, calls, response, queue, handled>>
    /\ UNCHANGED <<consumerVars, site, peerVars, restVars>>

\* try: ch.basic_publish(...)
PublishBasic ==
    /\ web_pc = "basic_publish"
    /\ \/ /\ queue' = Append(queue, JsonDumps(calls[Len(calls)].kind,
                                              calls[Len(calls)].payload))
          /\ UNCHANGED pub_failed
       \/ /\ pub_failed' = "basic_publish"
          /\ UNCHANGED queue
    /\ web_pc' = "finally"
    /\ UNCHANGED <<requests, route, calls, conn, pub_exit, response, handled>>
    /\ UNCHANGED <<consumerVars, site, peerVars, restVars>>

\* finally: conn.close(), which may raise in its turn; then publish_task
\* returns, or the pending exception goes on to the caller
PublishFinally ==
    /\ web_pc = "finally"
    /\ conn' = "closed"
    /\ \/ /\ pub_exit' = IF pub_failed = "none" THEN "returned" ELSE "raised"
          /\ UNCHANGED pub_failed
       \/ /\ pub_failed' = "close"
          /\ pub_exit' = "raised"
    /\ web_pc' = "exited"
    /\ UNCHANGED <<requests, route, calls, response, queue, handled>>
    /\ UNCHANGED <<consumerVars, site, peerVars, restVars>>

\* return jsonify(...), 202 / except Exception: ...; return jsonify(...), 503
RouteRespond ==
    /\ web_pc = "exited"
    /\ response' = IF pub_exit = "returned"
                      THEN QueuedResponse(RouteKind(route))
                      ELSE PublishFailedResponse
    /\ web_pc' = "idle"
    /\ UNCHANGED <<requests, route, calls, conn, pub_failed, pub_exit, queue,
                   handled>>
    /\ UNCHANGED <<consumerVars, site, peerVars, restVars>>

\* a worker consumes the oldest message of the queue: on_message acks it
\* or nacks it
WorkerHandle ==
    /\ queue # << >>
    /\ queue' = Tail(queue)
    /\ LET m == JsonLoads(Head(queue))
           kind == IF m.type = "dict" THEN DictGet(m.fields, "kind", "")
                   ELSE "?"
           h == IF m.type = "dict" THEN TaskMapGet(kind) ELSE "None"
       IN  \E settlement \in
                 IF m.type # "dict" THEN {"none"}
                 ELSE IF h = "None" THEN {UnknownKindSettlement}
                 ELSE {"ack", ExceptSettlement} :
              handled' = Append(handled, [kind |-> kind,
                                          settlement |-> settlement])
    /\ UNCHANGED <<requests, route, web_pc, calls, conn, pub_failed, pub_exit,
                   response>>
    /\ UNCHANGED <<consumerVars, site, peerVars, restVars>>

WebNext ==
    \/ WebRequest
    \/ RouteCallPublish
    \/ OpenChannelStep
    \/ PublishBasic
    \/ PublishFinally
    \/ RouteRespond
    \/ WorkerHandle

WebSpec == Init /\ [][WebNext]_vars

\* the consumer in front of a site whose listing does not change
FeedInit ==
    /\ tag = 0
    /\ body = [json |-> "invalid", fields |-> << >>]
    /\ msg = Unbound
    /\ handler = "None"
    /\ pc = "idle"
    /\ events = << >>
    /\ unacked = 0
    /\ site \in SiteListings
    /\ PeerInit
    /\ WebInit
    /\ MainStarted
    /\ DashInit
    /\ ScraperInit
    /\ LateInit
    /\ applicants = EmptyBag
    /\ ingestion_watermarks = EmptyTable
    /\ analytics_summary = 0
    /\ tx_rows = EmptyBag
    /\ tx_wm = EmptyTable
    /\ tx_view = NoRefresh
    /\ last_seen = Null
    /\ existing_urls = {}
    /\ failed = NoFailure
    /\ listing = << >>
    /\ max_pages = DefaultMaxPages
    /\ page = 1
    /\ records = << >>
    /\ fetched = << >>
    /\ timeline = << >>
    /\ fetch_failed = FALSE
    /\ scan_pc = "off"
    /\ pre = [applicants |-> EmptyBag, ingestion_watermarks |-> EmptyTable,
              analytics_summary |-> 0]

FeedNext ==
    \/ BrokerPush
    \/ Deliver
    \/ OnMessageParse
    \/ HandlerConnect
    \/ FeedRead
    \/ ScanPage
    \/ ScrapeAfterScan
    \/ ScrapeInsert
    \/ ScrapeUpsert
    \/ RecomputeRefresh
    \/ HandlerCommit
    \/ HandlerExcept
    \/ OnMessageAck
    \/ OnMessageExcept

FeedSpec == FeedInit /\ [][FeedNext]_vars

\* the records the scan can build from a row
RecordKinds ==
    { MakeRecord(r, EntryUrl(r.href)) : r \in { k \in RowKinds : IsDataRow(k) } }

\* the non-empty batches the insert loop can be given
Batches == SeqsUpTo(RecordKinds, MaxBatch) \ { << >> }

\* lines 213-256 of handle_scrape_new_data run on a batch given directly, on
\* an empty sink: the connection is open and the watermark has been read
IngestInit ==
    /\ tag = 1
    /\ body = [json |-> "object",
               fields |-> [kind |-> "scrape_new_data", payload |-> "{}"]]
    /\ msg = JsonLoads(body)
    /\ handler = "handle_scrape_new_data"
    /\ pc = "h_insert"
    /\ events = << "dispatch" >>
    /\ unacked = 1
    /\ site = << >>
    /\ PeerInit
    /\ WebInit
    /\ MainStarted
    /\ DashInit
    /\ ScraperInit
    /\ LateInit
    /\ applicants = EmptyBag
    /\ ingestion_watermarks = EmptyTable
    /\ analytics_summary = 0
    /\ tx_rows = EmptyBag
    /\ tx_wm = EmptyTable
    /\ tx_view = NoRefresh
    /\ last_seen = SelectLastSeen(EmptyTable)
    /\ existing_urls = {}
    /\ failed = NoFailure
    /\ pre = [applicants |-> EmptyBag, ingestion_watermarks |-> EmptyTable,
              analytics_summary |-> 0]
    /\ listing = << >>
    /\ max_pages = DefaultMaxPages
    /\ page = 1
    /\ records \in Batches
    /\ fetched = << >>
    /\ timeline = << >>
    /\ fetch_failed = FALSE
    /\ scan_pc = "off"

\* the same lines run again, after a commit or after a rollback, on a batch
\* given directly; the watermark is read again first (lines 193-197)
IngestRerun ==
    /\ pc \in {"ack", "raised"}
    /\ tag < MaxRuns
    /\ tag' = tag + 1
    /\ pre' = Sink
    /\ last_seen' = SelectLastSeen(ingestion_watermarks)
    /\ \E b \in Batches : records' = b
    /\ failed' = NoFailure
    /\ events' = << "dispatch" >>
    /\ pc' = "h_insert"
    /\ UNCHANGED <<body, msg, handler, unacked, sinkVars, txVars,
                   existing_urls>>
    /\ UNCHANGED <<listing, max_pages, page, fetched, fetch_failed, scan_pc,
                   timeline>>
    /\ UNCHANGED auxVars

IngestNext ==
    \/ ScrapeInsert
    \/ ScrapeUpsert
    \/ HandlerCommit
    \/ HandlerExcept
    \/ IngestRerun

IngestSpec == IngestInit /\ [][IngestNext]_vars

-----------------------------------------------------------------------------
(* main() of the worker: the connection loop, the channel set-up and
   start_consuming *)

\* faulty variant: the last attempt is retried like the others
LastAttemptNever(a) == FALSE

\* if attempt == retries: log.error(...); raise
LastAttempt(a) == a = Retries

\* one iteration of for attempt in range(1, retries + 1):
\* connection = pika.BlockingConnection(params)
MainConnect ==
    /\ main_pc = "connect"
    /\ \/ \* connected: break
          /\ boot' = Append(boot, ConnectOk)
          /\ main_pc' = "setup"
       \/ \* except pika.exceptions.AMQPConnectionError
          /\ boot' = Append(boot, ConnectRefused)
          /\ main_pc' = IF LastAttempt(attempt) THEN "raised" ELSE "sleep"
    /\ UNCHANGED attempt
    /\ UNCHANGED <<consumerVars, site, peerVars, webVars, dashVars, scraperVars,
                   lateVars>>

\* log.warning(...); time.sleep(3); the next iteration, if there is one:
\* after the loop connection.channel() runs with whatever connection is
MainSleep ==
    /\ main_pc = "sleep"
    /\ boot' = Append(boot, Slept(RetryDelay))
    /\ attempt' = attempt + 1
    /\ main_pc' = IF attempt + 1 <= Retries THEN "connect" ELSE "raised"
    /\ UNCHANGED <<consumerVars, site, peerVars, webVars, dashVars, scraperVars,
                   lateVars>>

\* channel(), exchange_declare, queue_declare, queue_bind, basic_qos,
\* basic_consume, start_consuming: any of them may raise
MainSetup ==
    /\ main_pc = "setup"
    /\ main_pc' \in {"consuming", "raised"}
    /\ UNCHANGED <<attempt, boot>>
    /\ UNCHANGED <<consumerVars, site, peerVars, webVars, dashVars, scraperVars,
                   lateVars>>

MainInit ==
    /\ tag = 0
    /\ body = [json |-> "invalid", fields |-> << >>]
    /\ msg = Unbound
    /\ handler = "None"
    /\ pc = "idle"
    /\ events = << >>
    /\ unacked = 0
    /\ site = << >>
    /\ PeerInit
    /\ WebInit
    /\ main_pc = "connect"
    /\ attempt = 1
    /\ boot = << >>
    /\ DashInit
    /\ ScraperInit
    /\ LateInit
    /\ applicants = EmptyBag
    /\ ingestion_watermarks = EmptyTable
    /\ analytics_summary = 0
    /\ tx_rows = EmptyBag
    /\ tx_wm = EmptyTable
    /\ tx_view = NoRefresh
    /\ last_seen = Null
    /\ existing_urls = {}
    /\ failed = NoFailure
    /\ listing = << >>
    /\ max_pages = DefaultMaxPages
    /\ page = 1
    /\ records = << >>
    /\ fetched = << >>
    /\ timeline = << >>
    /\ fetch_failed = FALSE
    /\ scan_pc = "off"
    /\ pre = [applicants |-> EmptyBag, ingestion_watermarks |-> EmptyTable,
              analytics_summary |-> 0]

\* the start-up, then on_message up to the dispatch of each message
MainNext ==
    \/ MainConnect
    \/ MainSleep
    \/ MainSetup
    \/ BrokerPush
    \/ Deliver
    \/ OnMessageParse

MainSpec == MainInit /\ [][MainNext]_vars

-----------------------------------------------------------------------------
(* The synchronous dashboard of module_5: pull_data (src/app.py) and
   run_full_pipeline, run_step (src/run_pipeline.py).  Each request is served
   by a thread of the WSGI server. *)

StepNames == << "Scraper (scrape.py)", "Cleaner (clean.py)",
                "LLM Processing (llm_hosting/app.py)",
                "Data Loader (load_new_data.py)" >>

\* how a call of run_step ends: it returns, the script is missing, or the
\* subprocess exits non-zero
StepExits == {"ok", "FileNotFoundError", "RuntimeError"}

\* faulty variant: the pipeline goes on after a failed step
AfterStepIgnoresExit(exit, k) ==
    IF k = Len(StepNames) THEN "completed" ELSE "step"

\* run_step raises and run_full_pipeline has no handler; after the fourth
\* step it prints and returns
AfterStep(exit, k) ==
    IF exit # "ok" THEN "raised"
    ELSE IF k = Len(StepNames) THEN "completed" ELSE "step"

BusyReply ==
    [status |-> 409, body |-> "Busy", location |-> "none", pipeline |-> "not called"]

\* return {"ok": True}, 200
OkReply ==
    [status |-> 200, body |-> "{ok: true}", location |-> "none", pipeline |-> "completed"]

\* return {"error": str(exc)}, 500
ErrorReply ==
    [status |-> 500, body |-> "{error}", location |-> "none", pipeline |-> "raised"]

\* pipeline_lock.locked()
Locked(lock) == lock # 0

\* a POST /pull_data arrives and a thread takes it
PullDataRequest(t) ==
    /\ req_pc[t] = "idle"
    /\ pulls < MaxPulls
    /\ pulls' = pulls + 1
    /\ req_pc' = [req_pc EXCEPT ![t] = "check"]
    /\ reply' = [reply EXCEPT ![t] = NoReply]
    /\ pipeline_calls' = [pipeline_calls EXCEPT ![t] = 0]
    /\ waited' = [waited EXCEPT ![t] = FALSE]
    /\ UNCHANGED <<pipeline_lock, steps>>
    /\ UNCHANGED <<consumerVars, site, peerVars, webVars, mainVars, scraperVars,
                   lateVars>>

\* if pipeline_lock.locked(): return "Busy", 409
PullDataCheck(t) ==
    /\ req_pc[t] = "check"
    /\ IF Locked(pipeline_lock)
         THEN /\ reply' = [reply EXCEPT ![t] = BusyReply]
              /\ req_pc' = [req_pc EXCEPT ![t] = "idle"]
         ELSE /\ req_pc' = [req_pc EXCEPT ![t] = "with"]
              /\ UNCHANGED reply
    /\ UNCHANGED <<pipeline_lock, pipeline_calls, steps, waited, pulls>>
    /\ UNCHANGED <<consumerVars, site, peerVars, webVars, mainVars, scraperVars,
                   lateVars>>

\* faulty variant: the with statement enters whoever holds the lock
MayAcquireAlways(lock) == TRUE

\* Lock.acquire() returns only when no thread holds the lock
MayAcquire(lock) == lock = 0

\* with pipeline_lock: Lock.__enter__ is a blocking acquire
PullDataAcquire(t) ==
    /\ req_pc[t] = "with"
    /\ \/ /\ MayAcquire(pipeline_lock)
          /\ pipeline_lock' = t
          /\ req_pc' = [req_pc EXCEPT ![t] = "call"]
          /\ UNCHANGED waited
       \/ /\ pipeline_lock # 0
          /\ ~waited[t]
          /\ waited' = [waited EXCEPT ![t] = TRUE]
          /\ UNCHANGED <<pipeline_lock, req_pc>>
    /\ UNCHANGED <<pipeline_calls, reply, steps, pulls>>
    /\ UNCHANGED <<consumerVars, site, peerVars, webVars, mainVars, scraperVars,
                   lateVars>>

\* run_full_pipeline() is called
RunFullPipeline(t) ==
    /\ req_pc[t] = "call"
    /\ pipeline_calls' = [pipeline_calls EXCEPT ![t] = @ + 1]
    /\ steps' = << >>
    /\ req_pc' = [req_pc EXCEPT ![t] = "step"]
    /\ UNCHANGED <<pipeline_lock, reply, waited, pulls>>
    /\ UNCHANGED <<consumerVars, site, peerVars, webVars, mainVars, scraperVars,
                   lateVars>>

\* the next run_step call of run_full_pipeline, to its end
RunStep(t) ==
    /\ req_pc[t] = "step"
    /\ \E exit \in StepExits :
          /\ steps' = Append(steps, [name |-> StepNames[Len(steps) + 1],
                                     exit |-> exit])
          /\ req_pc' = [req_pc EXCEPT ![t] = AfterStep(exit, Len(steps) + 1)]
    /\ UNCHANGED <<pipeline_lock, pipeline_calls, reply, waited, pulls>>
    /\ UNCHANGED <<consumerVars, site, peerVars, webVars, mainVars, scraperVars,
                   lateVars>>

\* faulty variant: the lock is acquired without a with block and stays held
ReleaseNever(lock) == lock

\* Lock.__exit__ at the end of the with block, left by return or by raise
Release(lock) == 0

\* return {"ok": True}, 200 inside the with block: the lock is released
PullDataReturn(t) ==
    /\ req_pc[t] = "completed"
    /\ pipeline_lock' = Release(pipeline_lock)
    /\ reply' = [reply EXCEPT ![t] = OkReply]
    /\ req_pc' = [req_pc EXCEPT ![t] = "idle"]
    /\ UNCHANGED <<pipeline_calls, steps, waited, pulls>>
    /\ UNCHANGED <<consumerVars, site, peerVars, webVars, mainVars, scraperVars,
                   lateVars>>

\* except Exception as exc: return {"error": str(exc)}, 500, the lock
\* released by the with block
PullDataExcept(t) ==
    /\ req_pc[t] = "raised"
    /\ pipeline_lock' = Release(pipeline_lock)
    /\ reply' = [reply EXCEPT ![t] = ErrorReply]
    /\ req_pc' = [req_pc EXCEPT ![t] = "idle"]
    /\ UNCHANGED <<pipeline_calls, steps, waited, pulls>>
    /\ UNCHANGED <<consumerVars, site, peerVars, webVars, mainVars, scraperVars,
                   lateVars>>

\* return "OK", 200
UpdateOkReply ==
    [status |-> 200, body |-> "OK", location |-> "none", pipeline |-> "not called"]

\* a POST /update_analysis arrives and a thread takes it
UpdateAnalysisRequest(t) ==
    /\ req_pc[t] = "idle"
    /\ pulls < MaxPulls
    /\ pulls' = pulls + 1
    /\ req_pc' = [req_pc EXCEPT ![t] = "update"]
    /\ reply' = [reply EXCEPT ![t] = NoReply]
    /\ pipeline_calls' = [pipeline_calls EXCEPT ![t] = 0]
    /\ waited' = [waited EXCEPT ![t] = FALSE]
    /\ UNCHANGED <<pipeline_lock, steps>>
    /\ UNCHANGED <<consumerVars, site, peerVars, webVars, mainVars, scraperVars,
                   lateVars>>

\* update_analysis: if pipeline_lock.locked(): return "Busy", 409;
\* return "OK", 200
UpdateAnalysis(t) ==
    /\ req_pc[t] = "update"
    /\ reply' = [reply EXCEPT ![t] = IF Locked(pipeline_lock) THEN BusyReply
                                     ELSE UpdateOkReply]
    /\ req_pc' = [req_pc EXCEPT ![t] = "idle"]
    /\ UNCHANGED <<pipeline_lock, pipeline_calls, steps, waited, pulls>>
    /\ UNCHANGED <<consumerVars, site, peerVars, webVars, mainVars, scraperVars,
                   lateVars>>

DashNext ==
    \E t \in Threads :
        \/ UpdateAnalysisRequest(t)
        \/ UpdateAnalysis(t)
        \/ PullDataRequest(t)
        \/ PullDataCheck(t)
        \/ PullDataAcquire(t)
        \/ RunFullPipeline(t)
        \/ RunStep(t)
        \/ PullDataReturn(t)
        \/ PullDataExcept(t)

DashSpec == Init /\ [][DashNext]_vars

-----------------------------------------------------------------------------
(* GradCafeScraper.scrape_data (module_5/src/subprocess/scrape.py), the
   first step of the pipeline.  The listing and self.existing_urls are the
   variables listing and existing_urls. *)

\* one iteration of while len(self.data) < self.max_entries
ScrapeDataPage ==
    /\ scraper_pc = "loop"
    /\ Len(data) < max_entries
    /\ Len(requested) < MaxScraperPages
    /\ requested' = Append(requested, scraper_page)
    /\ \/ \* fetch_data returned None: return
          /\ scraper_pc' = "returned"
          /\ UNCHANGED <<data, scraper_page>>
       \/ \* a page with a table: _process_rows
          /\ HasTable(PageAt(listing, scraper_page))
          /\ LET r == ScanRows(PageAt(listing, scraper_page), existing_urls) IN
             /\ data' = data \o r.recs
             /\ IF r.stop
                  THEN \* break
                       /\ scraper_pc' = "returned"
                       /\ UNCHANGED scraper_page
                  ELSE \* page += 1; time.sleep(1)
                       /\ scraper_page' = scraper_page + 1
                       /\ UNCHANGED scraper_pc
       \/ \* a page without a table: results = [], page += 1; time.sleep(1)
          /\ ~HasTable(PageAt(listing, scraper_page))
          /\ scraper_page' = scraper_page + 1
          /\ UNCHANGED <<data, scraper_pc>>
    /\ UNCHANGED max_entries
    /\ UNCHANGED <<consumerVars, site, peerVars, webVars, mainVars, dashVars,
                   lateVars>>

\* the while condition is false: the method returns
ScrapeDataEnd ==
    /\ scraper_pc = "loop"
    /\ Len(data) >= max_entries
    /\ scraper_pc' = "returned"
    /\ UNCHANGED <<data, max_entries, scraper_page, requested>>
    /\ UNCHANGED <<consumerVars, site, peerVars, webVars, mainVars, dashVars,
                   lateVars>>

ScrapeDataInit ==
    /\ tag = 0
    /\ body = [json |-> "invalid", fields |-> << >>]
    /\ msg = Unbound
    /\ handler = "None"
    /\ pc = "idle"
    /\ events = << >>
    /\ unacked = 0
    /\ site = << >>
    /\ PeerInit
    /\ WebInit
    /\ MainStarted
    /\ DashInit
    /\ LateInit
    /\ data = << >>
    /\ max_entries \in 1..MaxEntriesArg \cup {DefaultMaxEntries}
    /\ scraper_page = 1
    /\ requested = << >>
    /\ scraper_pc = "loop"
    /\ applicants = EmptyBag
    /\ ingestion_watermarks = EmptyTable
    /\ analytics_summary = 0
    /\ tx_rows = EmptyBag
    /\ tx_wm = EmptyTable
    /\ tx_view = NoRefresh
    /\ last_seen = Null
    /\ existing_urls \in SUBSET Urls
    /\ failed = NoFailure
    /\ listing \in SiteListings
    /\ max_pages = DefaultMaxPages
    /\ page = 1
    /\ records = << >>
    /\ fetched = << >>
    /\ timeline = << >>
    /\ fetch_failed = FALSE
    /\ scan_pc = "off"
    /\ pre = [applicants |-> EmptyBag, ingestion_watermarks |-> EmptyTable,
              analytics_summary |-> 0]

ScrapeDataNext == ScrapeDataPage \/ ScrapeDataEnd

ScraperSpec == ScrapeDataInit /\ [][ScrapeDataNext]_vars

-----------------------------------------------------------------------------
(* GradCafeScraper.scrape_data of module_2/scrape.py.  path is the local of
   that name, unset until a row with a link has been processed; the scraper
   has no existing_urls. *)

\* the loop over rows[i], i = 1 .. len(rows)-1 of one page (rows is 1-based
\* here): the records appended to self.data, path after the loop, and
\* whether the loop was left by UnboundLocalError
RECURSIVE ProcessRowsFrom(_, _, _, _)
ProcessRowsFrom(rows, i, pth, acc) ==
    IF i > Len(rows) THEN [recs |-> acc, path |-> pth, raised |-> FALSE]
    ELSE IF rows[i].cells < MinCells THEN ProcessRowsFrom(rows, i + 1, pth, acc)
    ELSE \* if link_tag and 'href' in link_tag.attrs: path = link_tag['href']
         LET p == IF rows[i].href # NoLink THEN rows[i].href ELSE pth IN
         \* if path.startswith('/'): ... else: entry_url = path
         IF p = Unset THEN [recs |-> acc, path |-> pth, raised |-> TRUE]
         ELSE ProcessRowsFrom(rows, i + 1, p,
                              Append(acc, MakeRecord(rows[i], EntryUrl(p))))

\* one iteration of while len(self.data) < self.max_entries
Scrape2Page ==
    /\ scraper_pc = "loop"
    /\ Len(data) < max_entries
    /\ Len(requested) < MaxScraperPages
    /\ requested' = Append(requested, scraper_page)
    /\ \/ \* fetch_data returned None: return
          /\ scraper_pc' = "returned"
          /\ UNCHANGED <<data, scraper_page, path>>
       \/ \* if table: the rows; an exception is printed; page += 1
          /\ HasTable(PageAt(listing, scraper_page))
          /\ LET r == ProcessRowsFrom(PageAt(listing, scraper_page), 2, path,
                                      << >>) IN
             /\ data' = data \o r.recs
             /\ path' = r.path
          /\ scraper_page' = scraper_page + 1
          /\ UNCHANGED scraper_pc
       \/ \* no table: results = [], page += 1
          /\ ~HasTable(PageAt(listing, scraper_page))
          /\ scraper_page' = scraper_page + 1
          /\ UNCHANGED <<data, scraper_pc, path>>
    /\ UNCHANGED <<max_entries, loaderVars, sink_conns>>
    /\ UNCHANGED <<consumerVars, site, peerVars, webVars, mainVars, dashVars>>

\* the while condition is false: the method returns
Scrape2End ==
    /\ scraper_pc = "loop"
    /\ Len(data) >= max_entries
    /\ scraper_pc' = "returned"
    /\ UNCHANGED <<data, max_entries, scraper_page, requested>>
    /\ UNCHANGED <<consumerVars, site, peerVars, webVars, mainVars, dashVars,
                   lateVars>>

\* scraper = GradCafeScraper(); scraper.scrape_data()
Scrape2Init ==
    /\ ScrapeDataInit
    /\ existing_urls = {}

Scrape2Next == Scrape2Page \/ Scrape2End

Scraper2Spec == Scrape2Init /\ [][Scrape2Next]_vars

-----------------------------------------------------------------------------
(* load_new_records (module_5/src/load_new_data.py), the last step of the
   pipeline.  The table is the variable applicants together with other_rows
   rows of distinct urls that are in no entry of the file; the rows inserted
   and not yet committed are tx_rows; existing_urls is the local of that
   name. *)

\* SELECT url FROM applicants WHERE url IS NOT NULL LIMIT 100, as far as the
\* urls of the entries go: any 100 of the rows when there are more
SelectUrlsLimit(tbl, others) ==
    LET stored == SelectExistingUrls(tbl)
        total == Cardinality(stored) + others
        got == IF total <= LoaderLimit THEN total ELSE LoaderLimit
    IN  { S \in SUBSET stored :
            /\ Cardinality(S) <= got
            /\ got - Cardinality(S) <= others }

\* the file is read, the connection made, existing_urls selected; any of
\* these steps may end the run (file or table missing, exception)
LoadStart ==
    /\ loader_pc = "start"
    /\ \/ /\ existing_urls' \in SelectUrlsLimit(applicants, other_rows)
          /\ loader_pc' = "loop"
       \/ /\ loader_pc' = "returned"
          /\ UNCHANGED existing_urls
    /\ UNCHANGED <<entries, other_rows, next_entry, path, sink_conns>>
    /\ UNCHANGED <<brokerVars, pc, sinkVars, txVars, last_seen, failed,
                   scanVars, pre>>
    /\ UNCHANGED <<site, peerVars, webVars, mainVars, dashVars, scraperVars>>

\* one iteration of for entry in data
LoadEntry ==
    /\ loader_pc = "loop"
    /\ next_entry <= Len(entries)
    /\ LET url == entries[next_entry].url IN
       \/ \* if url and url in existing_urls: continue
          /\ Truthy(url) /\ url \in existing_urls
          /\ next_entry' = next_entry + 1
          /\ UNCHANGED <<tx_rows, existing_urls, loader_pc>>
       \/ \* cur.execute(insert_query, ...); if url: existing_urls.add(url)
          /\ ~(Truthy(url) /\ url \in existing_urls)
          /\ tx_rows' = tx_rows (+) SetToBag({RowOf(entries[next_entry])})
          /\ existing_urls' = IF Truthy(url) THEN existing_urls \cup {url}
                              ELSE existing_urls
          /\ next_entry' = next_entry + 1
          /\ UNCHANGED loader_pc
       \/ \* the insert raises: except, finally: nothing is committed
          /\ ~(Truthy(url) /\ url \in existing_urls)
          /\ tx_rows' = EmptyBag
          /\ loader_pc' = "returned"
          /\ UNCHANGED <<existing_urls, next_entry>>
    /\ UNCHANGED <<entries, other_rows, path, sink_conns>>
    /\ UNCHANGED <<brokerVars, pc, sinkVars, tx_wm, tx_view, last_seen, failed,
                   scanVars, pre>>
    /\ UNCHANGED <<site, peerVars, webVars, mainVars, dashVars, scraperVars>>

\* conn.commit() after the loop, then finally: close
LoadCommit ==
    /\ loader_pc = "loop"
    /\ next_entry > Len(entries)
    /\ \/ applicants' = applicants (+) tx_rows
       \/ UNCHANGED applicants
    /\ tx_rows' = EmptyBag
    /\ loader_pc' = "returned"
    /\ UNCHANGED <<entries, other_rows, next_entry, path, sink_conns>>
    /\ UNCHANGED <<brokerVars, pc, ingestion_watermarks, analytics_summary,
                   tx_wm, tx_view, localVars, scanVars, pre>>
    /\ UNCHANGED <<site, peerVars, webVars, mainVars, dashVars, scraperVars>>

LoadInit ==
    /\ tag = 0
    /\ body = [json |-> "invalid", fields |-> << >>]
    /\ msg = Unbound
    /\ handler = "None"
    /\ pc = "idle"
    /\ events = << >>
    /\ unacked = 0
    /\ site = << >>
    /\ PeerInit
    /\ WebInit
    /\ MainStarted
    /\ DashInit
    /\ ScraperInit
    /\ path = Unset
    /\ entries \in SeqsUpTo(RecordKinds, MaxFile)
    /\ other_rows \in {0, LoaderLimit - 1, LoaderLimit}
    /\ next_entry = 1
    /\ loader_pc = "start"
    /\ sink_conns = 0
    /\ applicants \in { SetToBag(T) : T \in SUBSET RecordKinds }
    /\ ingestion_watermarks = EmptyTable
    /\ analytics_summary = 0
    /\ tx_rows = EmptyBag
    /\ tx_wm = EmptyTable
    /\ tx_view = NoRefresh
    /\ last_seen = Null
    /\ existing_urls = {}
    /\ failed = NoFailure
    /\ listing = << >>
    /\ max_pages = DefaultMaxPages
    /\ page = 1
    /\ records = << >>
    /\ fetched = << >>
    /\ timeline = << >>
    /\ fetch_failed = FALSE
    /\ scan_pc = "off"
    /\ pre = [applicants |-> EmptyBag, ingestion_watermarks |-> EmptyTable,
              analytics_summary |-> 0]

LoadNext == LoadStart \/ LoadEntry \/ LoadCommit

LoaderSpec == LoadInit /\ [][LoadNext]_vars

-----------------------------------------------------------------------------
(* Vocabulary of the properties *)

Has(seq, e) == \E i \in 1..Len(seq) : seq[i] = e

Count(seq, e) == Cardinality({ i \in 1..Len(seq) : seq[i] = e })

Last(seq) == seq[Len(seq)]

\* on_message has returned or raised for the current delivery
Finished == tag > 0 /\ pc \in {"idle", "crashed"}

\* the table the existing-urls window is taken from fits in the window
WindowCoversTable == BagCardinality(applicants (+) tx_rows) <= ExistingLimit

CommittedLastSeen == OrEmpty(SelectLastSeen(ingestion_watermarks))

\* the data rows of a page: every row after rows[0] that has enough cells
PageData(rows) == SelectSeq(Tail(rows), IsDataRow)

\* the data rows of the listing in listing order, each with its page
RECURSIVE ListingData(_, _)
ListingData(lst, p) ==
    IF p > Len(lst) THEN << >>
    ELSE [i \in 1..Len(PageData(lst[p])) |->
             [page |-> p, row |-> PageData(lst[p])[i]]]
         \o ListingData(lst, p + 1)

Data == ListingData(listing, 1)

RecordAt(d, i) == MakeRecord(d[i].row, EntryUrl(d[i].row.href))

\* listing positions whose identifier is in the existing-identifier set
SeenAt(d, existing) ==
    { k \in 1..Len(d) : EntryUrl(d[k].row.href) \in existing }

FirstSeen(d, existing) ==
    CHOOSE k \in SeenAt(d, existing) : \A j \in SeenAt(d, existing) : k <= j

UpTo(n) == [i \in 1..n |-> i]

-----------------------------------------------------------------------------
(* Properties *)

\* C1: after any sequence of tasks the applicants table never holds two rows
\* with the same non-null url; an insert whose url exists is a no-op.
C1_NoDuplicateUrl ==
    \A r \in BagToSet(applicants) :
        r.url # Null =>
            /\ CopiesIn(r, applicants) = 1
            /\ \A q \in BagToSet(applicants) : q.url = r.url => q = r

\* a committed batch that held the same url twice
C1_Witness ==
    /\ pc = "ack"
    /\ handler = "handle_scrape_new_data"
    /\ \E i, j \in 1..Len(records) :
          /\ i < j
          /\ records[i].url = records[j].url
          /\ records[i].url # Null
          /\ RowOf(records[i]) \in BagToSet(applicants)

\* C2: with a single consumer the stored watermark last_seen never decreases
\* (lexicographic order) from one step, hence one task, to the next.
C2_WatermarkMonotone ==
    [][StrLeq(CommittedLastSeen, CommittedLastSeen')]_vars

\* the second task has advanced a watermark that the first one stored
C2_Witness ==
    /\ pc = "ack"
    /\ Source \in DOMAIN pre.ingestion_watermarks
    /\ StrLess(pre.ingestion_watermarks[Source].last_seen, CommittedLastSeen)

\* C3: if the sink raises on an insert of the batch or on the watermark
\* upsert, no record of the batch becomes visible and the watermark row stays
\* what it was; the handler rolls back before the exception leaves it.
C3_FailedBatchInvisible ==
    failed.stmt \in {"insert", "upsert"} =>
        /\ applicants = pre.applicants
        /\ ingestion_watermarks = pre.ingestion_watermarks
        /\ pc \in {"h_except", "raised", "idle"}
        /\ pc # "h_except" => Has(events, "rollback") /\ tx_rows = EmptyBag

\* the sink raised on the last insert of a batch, after earlier inserts
C3_Witness ==
    /\ pc = "raised"
    /\ failed.stmt = "insert"
    /\ failed.done >= 1
    /\ failed.done = Len(records) - 1
    /\ Has(events, "rollback")
    /\ Source \in DOMAIN pre.ingestion_watermarks

C5_PageCapBound ==
    SeenAt(Data, existing_urls) = {} =>
        /\ Len(fetched) <= max_pages
        /\ fetched = UpTo(Len(fetched))
        /\ scan_pc = "loop" => page = Len(fetched) + 1 /\ page <= max_pages
        /\ scan_pc = "returned" =>
             LET got == IF fetch_failed THEN Len(fetched) - 1 ELSE Len(fetched)
                 d == SelectSeq(Data, LAMBDA x : x.page <= got)
             IN  records = [i \in 1..Len(d) |-> RecordAt(d, i)]

\* the cap ended a scan of a longer listing
C5_Witness ==
    /\ scan_pc = "returned"
    /\ SeenAt(Data, existing_urls) = {}
    /\ ~fetch_failed
    /\ Len(fetched) = max_pages
    /\ Len(listing) > max_pages
    /\ records # << >>
    /\ Len(records) < Len(Data)

UnknownKind(b) ==
    b.json = "object" /\ DictGet(b.fields, "kind", "") \notin DOMAIN TASK_MAP

\* C6: a message whose kind is not a key of TASK_MAP (or is missing) gets
\* one basic_nack(requeue=False), no handler runs and the sink is not touched.
C6_UnknownKindRejected ==
    (tag > 0 /\ UnknownKind(body)) =>
        /\ pc \in {"received", "idle"}
        /\ pc = "received" => events = << >>
        /\ pc = "idle" => events = << "nack" >>
        /\ Sink = pre
        /\ tx_rows = EmptyBag /\ tx_wm = EmptyTable /\ tx_view = NoRefresh

\* a "bogus" message settled while the sink holds data
C6_Witness ==
    /\ pc = "idle"
    /\ body.json = "object"
    /\ DictGet(body.fields, "kind", "") = "bogus"
    /\ events = << "nack" >>
    /\ applicants # EmptyBag

Malformed(b) == b.json \in {"invalid", "array"}

\* C7: a message whose body is not JSON, or is JSON but not an object, is
\* settled by one basic_nack(requeue=False) and on_message returns normally.
C7_MalformedRejected ==
    (tag > 0 /\ Malformed(body)) =>
        /\ pc # "crashed"
        /\ ~Has(events, "dispatch")
        /\ pc = "idle" => events = << "nack" >>

Settlements(ev) == Count(ev, "ack") + Count(ev, "nack") + Count(ev, "nack_requeue")

\* C8: every delivery ends with exactly one settlement, an ack or a
\* nack(requeue=False), never both, never none, never a requeue.
C8_ExactlyOneSettlement ==
    /\ Settlements(events) <= 1
    /\ ~Has(events, "nack_requeue")
    /\ Finished => Settlements(events) = 1

\* C9: a message is acked only after its handler's transaction committed,
\* and never when the transaction rolled back.
C9_AckAfterCommit ==
    Has(events, "ack") =>
        /\ \E i, j \in 1..Len(events) :
              i < j /\ events[i] = "commit" /\ events[j] = "ack"
        /\ ~Has(events, "rollback")
        /\ failed = NoFailure

\* a scrape task committed new rows and was then acked
C9_Witness ==
    /\ pc = "idle"
    /\ handler = "handle_scrape_new_data"
    /\ events = << "dispatch", "commit", "ack" >>
    /\ applicants # pre.applicants

\* C10: when a handler raises, the message gets basic_nack(requeue=False) and
\* nothing else, the transaction is rolled back and the sink is what it was
\* when the message was delivered.
C10_HandlerErrorRejected ==
    failed.stmt # "none" =>
        /\ Sink = pre
        /\ ~Has(events, "ack") /\ ~Has(events, "nack_requeue")
        /\ ~Has(events, "commit")
        /\ pc = "idle" =>
              /\ Last(events) = "nack"
              /\ Count(events, "nack") = 1
              /\ failed.stmt # "connect" => Has(events, "rollback")

\* the watermark upsert raised: rolled back, then nacked
C10_Witness ==
    /\ pc = "idle"
    /\ failed.stmt = "upsert"
    /\ events = << "dispatch", "rollback", "nack" >>
    /\ tx_rows = EmptyBag

\* C11: a consumer instance never has more than one unsettled message in
\* flight: while on_message runs, its message is the only one pushed to the
\* consumer, and a further message is pushed only after the current one got
\* its ack or nack.
C11_PrefetchOne ==
    /\ unacked <= 1
    /\ pc \notin {"idle", "crashed"} => unacked = 1 /\ Buffered = 0
    /\ (Buffered > 0 /\ tag > 0) => pc = "idle" /\ Settlements(events) = 1

\* the second message is pushed after the first one was acked
C11_Witness ==
    /\ tag = 1
    /\ pc = "idle"
    /\ Has(events, "ack")
    /\ unacked = 1
    /\ Buffered = 1

\* the records of every data row on the pages before page p
RecordsBefore(d, p) ==
    LET e == SelectSeq(d, LAMBDA x : x.page < p)
    IN  [i \in 1..Len(e) |-> RecordAt(e, i)]

\* C12: when the fetch of page p fails the scan returns, without raising, the
\* records of pages 1..p-1, and the task goes on as after any scan: unless the
\* sink raises, the records are inserted and committed and the message acked.
C12_FetchFailurePartial ==
    (handler = "handle_scrape_new_data" /\ fetch_failed) =>
        /\ pc \notin {"received", "dispatched", "h_read"}
        /\ pc = "h_scan" =>
              /\ scan_pc = "returned"
              /\ records = RecordsBefore(Data, page)
        /\ failed = NoFailure =>
              /\ pc \in {"h_scan", "h_insert", "h_upsert", "h_commit", "ack", "idle"}
              /\ ~Has(events, "rollback") /\ ~Has(events, "nack")
              /\ pc \in {"ack", "idle"} =>
                    /\ Has(events, "commit")
                    /\ applicants =
                         pre.applicants (+) InsertAll(pre.applicants, EmptyBag, records)
              /\ pc = "idle" => events = << "dispatch", "commit", "ack" >>

\* the fetch of page 2 failed; the record of page 1 was committed and acked
C12_Witness ==
    /\ handler = "handle_scrape_new_data"
    /\ fetch_failed
    /\ pc = "idle"
    /\ events = << "dispatch", "commit", "ack" >>
    /\ records # << >>
    /\ \A i \in 1..Len(records) : RowOf(records[i]) \in BagToSet(applicants)
    /\ applicants # pre.applicants

\* the rows of a table that carry an identifier
Identified(tbl) == { r \in BagToSet(tbl) : r.url # Null }

\* C13 as stated: a run whose records, those without identifier included,
\* were all inserted by an earlier run leaves the rows of applicants as
\* they were and does not lower the watermark.
C13_AsStated ==
    (pc = "ack" /\ tag >= 2
       /\ \A i \in 1..Len(records) : RowOf(records[i]) \in BagToSet(pre.applicants)) =>
        /\ applicants = pre.applicants
        /\ StrLeq(OrEmpty(SelectLastSeen(pre.ingestion_watermarks)),
                  CommittedLastSeen)

\* C13, amended: a run on any batch, overlapping the earlier ones or not,
\* keeps every row there was, leaves one row per identifier, adds no
\* identified row when the identifiers of its batch are all there, and does
\* not lower the watermark; a record without identifier becomes a new row in
\* every run.
C13_IdempotentOnIdentified ==
    (pc = "ack" /\ tag >= 2) =>
        /\ \A r \in BagToSet(pre.applicants) :
              CopiesIn(r, applicants) >= CopiesIn(r, pre.applicants)
        /\ \A r \in Identified(applicants) :
              /\ CopiesIn(r, applicants) = 1
              /\ \A q \in Identified(applicants) : q.url = r.url => q = r
        /\ (\A i \in 1..Len(records) :
               records[i].url # Null =>
                  \E r \in Identified(pre.applicants) : r.url = records[i].url)
             => Identified(applicants) = Identified(pre.applicants)
        /\ \A k \in RecordKinds :
              k.url = Null =>
                 CopiesIn(RowOf(k), applicants) =
                    CopiesIn(RowOf(k), pre.applicants) + Count(records, k)
        /\ StrLeq(OrEmpty(SelectLastSeen(pre.ingestion_watermarks)),
                  CommittedLastSeen)

\* the second run committed a batch of one identified record and one record
\* without identifier, both inserted by the first run
C13_Witness ==
    /\ pc = "ack"
    /\ tag = 2
    /\ Len(records) = 2
    /\ \A i \in 1..2 : RowOf(records[i]) \in BagToSet(pre.applicants)
    /\ \E i \in 1..2 : records[i].url # Null
    /\ \E i \in 1..2 : records[i].url = Null
    /\ applicants # pre.applicants

\* a scrape task is past its scan, records is its batch
AfterScan ==
    /\ handler = "handle_scrape_new_data"
    /\ pc \in {"h_insert", "h_upsert", "h_commit", "h_except", "raised",
               "ack", "idle"}
    /\ Has(events, "dispatch")
    /\ failed.stmt \notin {"connect", "select"}

BatchUrls(recs) == { recs[i].url : i \in 1..Len(recs) } \ {Null}

\* the lexicographically greatest identifier of a batch that has one
BatchMax(recs) ==
    CHOOSE m \in BatchUrls(recs) : \A u \in BatchUrls(recs) : StrLeq(u, m)

\* C17: a scrape task whose batch holds no record with an identifier leaves
\* the watermark row untouched, value and updated_at, in its transaction and
\* in the sink.
C17_WatermarkFrame ==
    (AfterScan /\ BatchUrls(records) = {}) =>
        /\ tx_wm = EmptyTable
        /\ ingestion_watermarks = pre.ingestion_watermarks

\* C18 as stated: after a committed scrape task whose batch has an
\* identifier, the stored last_seen is the greatest identifier of the batch.
C18_AsStated ==
    (AfterScan /\ Has(events, "commit") /\ BatchUrls(records) # {}) =>
        CommittedLastSeen = BatchMax(records)

\* C18, amended: the stored last_seen is the greater of the watermark the
\* task read and the greatest identifier of its batch, and the row carries
\* the time of this task.
C18_WatermarkIsMax ==
    (AfterScan /\ Has(events, "commit") /\ BatchUrls(records) # {}) =>
        LET old == OrEmpty(SelectLastSeen(pre.ingestion_watermarks))
            new == BatchMax(records)
        IN  /\ CommittedLastSeen = IF StrGreater(new, old) THEN new ELSE old
            /\ ingestion_watermarks[Source].updated_at = tag

\* the batch holds /result/10 alone while the watermark read is /result/9
C18_Witness ==
    /\ AfterScan
    /\ pc = "ack"
    /\ BatchUrls(records) # {}
    /\ Source \in DOMAIN pre.ingestion_watermarks
    /\ StrLess(BatchMax(records), pre.ingestion_watermarks[Source].last_seen)
    /\ CommittedLastSeen = pre.ingestion_watermarks[Source].last_seen
    /\ ingestion_watermarks # pre.ingestion_watermarks

\* the number n of a link /result/n
RECURSIVE DigitsValue(_, _)
DigitsValue(digits, acc) ==
    IF digits = << >> THEN acc
    ELSE DigitsValue(Tail(digits), 10 * acc + (Head(digits) - 48))

ResultId(href) == DigitsValue(SelectSeq(href, LAMBDA c : c \in 48..57), 0)

\* the data rows of a listing that carry a result link
Linked(lst) == SelectSeq(ListingData(lst, 1), LAMBDA x : x.row.href # NoLink)

\* the later a result was posted the greater its number: the listing shows
\* the results most recent first
MostRecentFirst(lst) ==
    \A i, j \in 1..Len(Linked(lst)) :
        i < j => ResultId(Linked(lst)[i].row.href) > ResultId(Linked(lst)[j].row.href)

\* C16: with the listing most recent first, no listed record is missed for
\* good: when the scan of a task ends by its stopping rule (no fetch failed,
\* the page cap not reached) with nothing new to ingest, so that this task and
\* every later one on the same listing commit nothing, every identified record
\* of the listing is in the sink.
C16_NoMissedEntries ==
    (MostRecentFirst(site) /\ pc = "h_scan" /\ scan_pc = "returned"
       /\ ~fetch_failed /\ LoopContinues(page, max_pages) /\ records = << >>) =>
        \A k \in 1..Len(Linked(site)) :
            EntryUrl(Linked(site)[k].row.href) \in SelectExistingUrls(applicants)

\* C14: with two consumer instances running scrape_new_data tasks on the
\* same sink, no step of either lowers the stored watermark last_seen.
C14_PairWatermarkMonotone ==
    [][~StrLess(CommittedLastSeen', CommittedLastSeen)]_vars

\* the rows of a table that carry the identifier u
UrlCount(tbl, u) ==
    BagCardinality([r \in { x \in BagToSet(tbl) : x.url = u } |-> tbl[r]])

\* the sink holds an identifier of the batch that the task did not read
Raced ==
    \E u \in BatchUrls(records) :
        u \notin existing_urls /\ u \in SelectExistingUrls(applicants)

RaceAbsorbed ==
    /\ \A u \in Urls : UrlCount(applicants, u) <= 1
    /\ (AfterScan /\ Raced /\ failed = NoFailure) =>
          /\ pc \in {"h_insert", "h_upsert", "h_commit", "ack", "idle"}
          /\ Has(events, "commit") =>
                \A u \in BatchUrls(records) : UrlCount(applicants, u) = 1
          /\ pc = "idle" => events = << "dispatch", "commit", "ack" >>

\* C15: when another process commits a record of the batch after the task
\* read the existing identifiers, the task still commits and is acked, unless
\* the sink raises, and the sink holds one row for that identifier; the
\* existing identifiers are assigned by the one read of the task, before the
\* scan, and never again.
C15_RaceAbsorbed ==
    [][/\ RaceAbsorbed'
       /\ existing_urls' # existing_urls => pc = "h_read" /\ pc' = "h_scan"]_vars

\* every insert of the batch was absorbed: the other consumer committed the
\* same identifiers after this task had read the existing ones
C15_Witness ==
    /\ pc = "h_commit"
    /\ failed = NoFailure
    /\ peer_pc = "done"
    /\ BatchUrls(records) # {}
    /\ \A u \in BatchUrls(records) :
          u \notin existing_urls /\ UrlCount(applicants, u) = 1
    /\ tx_rows = EmptyBag
    /\ tx_wm # EmptyTable

\* C19: when publish_task has returned or raised, the connection it opened
\* is closed, wherever the failure was, and publish_task returns normally
\* only if nothing failed.
C19_PublishClosesAndRaises ==
    web_pc = "exited" =>
        /\ conn # "open"
        /\ pub_exit = "returned" <=> pub_failed = "none"
        /\ pub_exit \in {"returned", "raised"}

\* the route has answered the request
Answered == requests > 0 /\ web_pc = "idle"

RouteContract ==
    /\ Len(calls) <= 1
    /\ web_pc \notin {"idle", "route"} =>
          calls = << [kind |-> RouteKind(route), payload |-> EmptyPayload] >>
    /\ Answered =>
          /\ calls = << [kind |-> RouteKind(route), payload |-> EmptyPayload] >>
          /\ response \in {QueuedResponse(RouteKind(route)), PublishFailedResponse}
          /\ response = QueuedResponse(RouteKind(route)) <=> pub_exit = "returned"
          /\ response = PublishFailedResponse <=> pub_exit = "raised"
          /\ response.status = 202 <=> pub_exit = "returned"
          /\ response.status = 503 <=> pub_exit = "raised"

\* C20: each route calls publish_task once, with its kind and an empty
\* payload, answers 202 queued exactly when the call returned and 503
\* publish_failed exactly when it raised, and what a worker does with the
\* message never changes the answer.
C20_RouteAnswers ==
    [][/\ RouteContract'
       /\ handled' # handled => response' = response]_vars

\* the route answered 202 and a worker then rejected the task
C20_Witness ==
    /\ Answered
    /\ route = "/scrape"
    /\ response = QueuedResponse("scrape_new_data")
    /\ requests = 1
    /\ handled = << [kind |-> "scrape_new_data", settlement |-> "nack"] >>

\* the connection attempts made so far
Attempts == SelectSeq(boot, LAMBDA e : e.op = "connect")

Consumed == unacked > 0 \/ tag > 0

\* C21: start-up makes at most 10 connection attempts; between a failed
\* attempt and the next attempt there is exactly one sleep, of 3 seconds, and
\* there is no other sleep; nothing is consumed before an attempt has
\* succeeded; after the 10th failed attempt main ends with the error, without
\* a sleep and without ever consuming.
C21_BoundedStartup ==
    /\ Len(Attempts) <= 10
    /\ \A i \in 1..Len(boot) :
          /\ boot[i].op = "sleep" =>
                /\ boot[i].secs = 3
                /\ i > 1 /\ boot[i - 1] = ConnectRefused
          /\ (boot[i] = ConnectRefused /\ i < Len(boot)) => boot[i + 1].op = "sleep"
          /\ boot[i] = ConnectOk => i = Len(boot)
    /\ (Consumed \/ main_pc = "consuming") => Has(boot, ConnectOk)
    /\ Count(boot, ConnectRefused) = 10 =>
          /\ main_pc = "raised"
          /\ Last(boot) = ConnectRefused
          /\ ~Consumed

\* ten attempts were refused and main has ended
C21_Witness ==
    /\ Count(boot, ConnectRefused) = 10
    /\ main_pc = "raised"

\* C22: between two consecutive page fetches of one scan there is exactly one
\* pause, of one second: the fetch of a page that is not the first comes right
\* after a sleep of 1 s, which comes right after the row loop of the page
\* before, which comes right after that page's fetch.
C22_OnePauseBetweenFetches ==
    \A i \in 1..Len(timeline) :
        (timeline[i].op = "fetch" /\ i > 1) =>
            /\ i > 3
            /\ timeline[i - 1] = [op |-> "sleep", n |-> 1]
            /\ timeline[i - 2] = [op |-> "rows", n |-> timeline[i].n - 1]
            /\ timeline[i - 3] = [op |-> "fetch", n |-> timeline[i].n - 1]

\* a scan has fetched two pages
C22_Witness ==
    /\ scan_pc = "returned"
    /\ Len(fetched) >= 2
    /\ Len(records) > 0

\* whether the records recs[i..] can be assigned listing positions of d[j..]
\* that increase along recs (the earliest position that fits is taken)
RECURSIVE InOrderFrom(_, _, _, _)
InOrderFrom(recs, d, i, j) ==
    IF i > Len(recs) THEN TRUE
    ELSE IF j > Len(d) THEN FALSE
    ELSE IF recs[i] = RecordAt(d, j) THEN InOrderFrom(recs, d, i + 1, j + 1)
    ELSE InOrderFrom(recs, d, i, j + 1)

\* C23: the records of a scan are in the order of the listing: each record can
\* be assigned the listing position it was extracted from so that positions
\* increase along the output, that is records of an earlier page come before
\* records of a later page and records of one page are in row order.
C23_ListingOrder ==
    InOrderFrom(records, Data, 1, 1)

\* a scan has returned three different records of two pages
C23_Witness ==
    /\ scan_pc = "returned"
    /\ Len(records) = 3
    /\ Cardinality({ records[i] : i \in 1..3 }) = 3
    /\ Len(fetched) >= 2
    /\ Data[2].page # Data[3].page

ShortRow(row) == row.cells < 4

\* the listing without its rows of fewer than 4 cells (the header row of each
\* page, which the scan never reads, stays)
WithoutShortRows(lst) ==
    [p \in 1..Len(lst) |->
        << lst[p][1] >> \o SelectSeq(Tail(lst[p]), LAMBDA r : ~ShortRow(r))]

\* C24: a row of fewer than 4 cells contributes no record, never stops the
\* scan and does not keep later rows from being extracted: no record of the
\* output comes from such a row, and the scan returns what it returns on the
\* same listing with these rows removed (same existing set, same page cap,
\* same failing fetch).
C24_ShortRowsSkipped ==
    scan_pc = "returned" =>
        /\ \A i \in 1..Len(records) :
              \A p \in 1..Len(listing) : \A j \in 2..Len(listing[p]) :
                  ShortRow(listing[p][j]) => records[i].program # listing[p][j].program
        /\ records = ScrapeNewRecords(WithoutShortRows(listing), existing_urls,
                                      max_pages,
                                      IF fetch_failed THEN Last(fetched) ELSE 0)

\* a scan has passed a short row whose link is a known identifier and has
\* extracted the data row after it on the same page
C24_Witness ==
    /\ scan_pc = "returned"
    /\ \E p \in 1..Len(listing) : \E i, j \in 2..Len(listing[p]) :
          /\ i < j
          /\ ShortRow(listing[p][i])
          /\ EntryUrl(listing[p][i].href) \in existing_urls
          /\ ~ShortRow(listing[p][j])
          /\ Has(records, MakeRecord(listing[p][j], EntryUrl(listing[p][j].href)))

\* no page was fetched after a page without a table
NothingAfterNoTable ==
    \A i \in 1..Len(fetched) :
        PageAt(listing, fetched[i]) = NoTable => i = Len(fetched)

\* C25: when the page just fetched holds no table the scan stops there: it
\* returns (no error), with exactly the records collected from the pages
\* before, and no page is ever fetched after such a page.
C25_NoTableStops ==
    [][/\ NothingAfterNoTable'
       /\ (scan_pc = "loop" /\ PageAt(listing, page) = NoTable /\ ~fetch_failed') =>
             /\ scan_pc' = "returned"
             /\ records' = records
             /\ fetched' = Append(fetched, page)]_vars

\* a scan has collected records and then met a page without a table
C25_Witness ==
    /\ scan_pc = "returned"
    /\ ~fetch_failed
    /\ Len(records) > 0
    /\ fetched # << >>
    /\ PageAt(listing, Last(fetched)) = NoTable

Greatest(S) == CHOOSE m \in S : \A u \in S : StrLeq(u, m)

\* the listing positions a scan without a failed fetch reaches: those on the
\* pages within the cap, before the first position with a known identifier
Reached(d, existing, maxp) ==
    { i \in 1..Len(d) :
        /\ d[i].page <= maxp
        /\ \A k \in SeenAt(d, existing) : i < k }

\* a scan that ended at the break of the row loop
StoppedOnSeen == timeline # << >> /\ Last(timeline).op = "rows"

Unidentified(recs) == { i \in 1..Len(recs) : recs[i].url = Null }

\* C26: a data row without identifier never stops the scan (a scan stops on
\* seen only at a row whose identifier is known), is in the output of every
\* scan that reaches it, is inserted by the insert loop whatever the table
\* holds, and has no part in the watermark value: the value the task writes is
\* the greatest of the watermark read and the identifiers of the batch, and
\* nothing is computed from the records without one.
C26_UnidentifiedRows ==
    [][/\ (pc' = "h_scan" /\ scan_pc' = "returned") =>
             /\ StoppedOnSeen' => SeenAt(Data', existing_urls') # {}
             /\ ~fetch_failed' =>
                   \A i \in Reached(Data', existing_urls', max_pages') :
                       Data'[i].row.href = NoLink =>
                           /\ i <= Len(records')
                           /\ records'[i] = RecordAt(Data', i)
       /\ (pc = "h_insert" /\ pc' = "h_upsert") =>
             \A i \in Unidentified(records) :
                 CopiesIn(RowOf(records[i]), tx_rows') =
                     CopiesIn(RowOf(records[i]), tx_rows) + Count(records, records[i])
       /\ (pc = "h_upsert" /\ pc' = "h_commit") =>
             LET m == Greatest({OrEmpty(last_seen)} \cup BatchUrls(records)) IN
             IF m = EmptyStr THEN tx_wm' = tx_wm
             ELSE tx_wm'[Source].last_seen = m]_vars

\* a task has scanned a row without identifier ahead of a row with a new one,
\* inserted both and written the watermark
C26_Witness ==
    /\ AfterScan
    /\ pc = "h_commit"
    /\ Len(records) = 2
    /\ records[1].url = Null
    /\ records[2].url # Null
    /\ CopiesIn(RowOf(records[1]), tx_rows) = 1
    /\ CopiesIn(RowOf(records[1]), applicants) = 1
    /\ Source \in DOMAIN tx_wm

\* C27: a POST /pull_data handled while another pull is in progress answers
\* 409 "Busy" without calling run_full_pipeline, in every interleaving: a
\* request that has found the lock held by another request, at the test or
\* at the with statement, calls no pipeline and is answered 409 "Busy" if it
\* is answered.
C27_BusyNeverWaits ==
    \A t \in Threads :
        waited[t] =>
            /\ pipeline_calls[t] = 0
            /\ reply[t].status \in {0, 409}

\* C28: a POST /pull_data that found the lock free and whose pipeline
\* completed has called run_full_pipeline exactly once and is answered 302
\* with Location "/".
C28_SuccessRedirects ==
    \A t \in Threads :
        reply[t].pipeline = "completed" =>
            /\ pipeline_calls[t] = 1
            /\ reply[t].status = 302
            /\ reply[t].location = "/"

\* C29: run_full_pipeline runs the four steps Scrape, Clean, LLM, Load in this
\* order, a step only after the one before it has finished successfully; a
\* step whose script is missing or exits non-zero makes run_step raise, and
\* no step is started after it.
C29_StepsInOrder ==
    /\ Len(steps) <= 4
    /\ \A k \in 1..Len(steps) :
          /\ steps[k].name = << "Scraper (scrape.py)", "Cleaner (clean.py)",
                                "LLM Processing (llm_hosting/app.py)",
                                "Data Loader (load_new_data.py)" >>[k]
          /\ k < Len(steps) => steps[k].exit = "ok"
    /\ \A t \in Threads :
          /\ req_pc[t] = "completed" =>
                Len(steps) = 4 /\ \A k \in 1..4 : steps[k].exit = "ok"
          /\ req_pc[t] = "raised" =>
                steps # << >> /\ Last(steps).exit \in {"FileNotFoundError", "RuntimeError"}
          /\ req_pc[t] = "step" =>
                Len(steps) < 4

\* the third step's script exited non-zero after two successful steps
C29_Witness ==
    /\ Len(steps) = 3
    /\ steps[3].exit = "RuntimeError"
    /\ \E t \in Threads : req_pc[t] = "raised"

\* C30: scrape_data ends once the listing is exhausted: after it has fetched
\* a page past the end, which holds no results table, it requests no further
\* page.
C30_StopsWhenExhausted ==
    \A i \in 1..Len(requested) :
        PageAt(listing, requested[i]) = NoTable => i = Len(requested)

\* C31: load_new_records inserts only new unique records: the table had no two
\* rows with the same non-null url before the run and has none after it,
\* whatever the number of rows in the table and whatever the file repeats.
C31_LoadKeepsUrlsUnique ==
    \A u \in Urls : UrlCount(applicants, u) <= 1

\* C32: no single message stops the consumer: whatever the message was (valid,
\* of an unknown kind, malformed, or one whose handler raised), on_message
\* returns to start_consuming, which stays in its loop and calls on_message
\* for the next message pushed.
C32_NoMessageStopsConsumer ==
    tag > 0 =>
        /\ ~Has(events, "crash")
        /\ pc = "crashed" => FALSE
        /\ (pc = "idle" /\ Buffered > 0) => ENABLED Deliver

\* a delivery of scrape_new_data whose scan has returned no record
EmptyScan ==
    /\ tag > 0
    /\ handler = "handle_scrape_new_data"
    /\ pc \notin {"dispatched", "h_read"}
    /\ failed.stmt \notin {"connect", "select"}
    /\ scan_pc # "loop"
    /\ records = << >>

\* C33: when the scan returns no record, handle_scrape_new_data executes no
\* insert and no watermark upsert and commits, and on_message acks: the
\* tables applicants and ingestion_watermarks are as they were at delivery.
C33_EmptyScanChangesNothing ==
    EmptyScan =>
        /\ pc \notin {"h_insert", "h_upsert"}
        /\ tx_rows = EmptyBag /\ tx_wm = EmptyTable
        /\ applicants = pre.applicants
        /\ ingestion_watermarks = pre.ingestion_watermarks
        /\ pc = "h_commit" => events = << "dispatch" >>
        /\ (pc = "idle" /\ failed = NoFailure) =>
                events = << "dispatch", "commit", "ack" >>

\* an empty scan over a table that has rows and a watermark, acknowledged
C33_Witness ==
    /\ EmptyScan
    /\ pc = "idle"
    /\ events = << "dispatch", "commit", "ack" >>
    /\ applicants # EmptyBag
    /\ ingestion_watermarks # EmptyTable

\* the handler is running: from conn = _get_db_conn() to its finally clause
InHandler ==
    pc \in {"h_read", "h_scan", "h_insert", "h_upsert", "h_refresh",
            "h_commit", "h_except"}

\* C34: a handler invocation opens one connection, runs one transaction on
\* it (ended by one commit or one rollback) and closes the connection on
\* every exit path: the consumer has one open sink connection while a
\* handler runs and none otherwise.
C34_OneConnectionPerHandler ==
    /\ sink_conns \in {0, 1}
    /\ InHandler <=> sink_conns = 1
    /\ Count(events, "dispatch") <= 1
    /\ Count(events, "commit") + Count(events, "rollback") <= 1
    /\ InHandler => ~Has(events, "commit") /\ ~Has(events, "rollback")

\* the connection of the second message is closed after an exception, the
\* first message having committed
C34_Witness ==
    /\ tag = 2
    /\ pc = "raised"
    /\ Has(events, "rollback")
    /\ sink_conns = 0
    /\ applicants # EmptyBag

\* C35: every body publish_task produces for the kinds of the dashboard is
\* parsed by on_message into a mapping whose kind is in TASK_MAP and whose
\* payload is a mapping: it is dispatched to its handler, never rejected as
\* malformed or unknown.
C35_PublishedBodiesDispatch ==
    /\ \A i \in 1..Len(queue) :
          LET m == JsonLoads(queue[i]) IN
          /\ m.type = "dict"
          /\ TaskMapGet(DictGet(m.fields, "kind", "")) # "None"
          /\ DictGet(m.fields, "payload", "missing") = EmptyPayload
    /\ \A i \in 1..Len(handled) :
          /\ handled[i].kind \in DOMAIN TASK_MAP
          /\ handled[i].settlement \in {"ack", ExceptSettlement}
    /\ Len(queue) + Len(handled) <= requests

\* a message of each kind has been published, consumed and dispatched
C35_Witness ==
    /\ \E i \in 1..Len(handled) : handled[i].kind = "scrape_new_data"
    /\ \E i \in 1..Len(handled) : handled[i].kind = "recompute_analytics"

\* what scrape_new_records does on the input of the scan that has returned
SharedOnSameInput ==
    SharedScrapeNewRecords(listing, existing_urls, max_pages,
                           IF fetch_failed THEN Last(fetched) ELSE 0)

\* C36: on the same pages, existing_urls and max_pages, scrape_new_records of
\* worker/etl/incremental_scraper.py and _scrape_new_records of the consumer
\* fetch the same pages, stop at the same row and return the same records,
\* with the same url for every row.
C36_SharedScraperAgrees ==
    scan_pc = "returned" =>
        /\ SharedOnSameInput.pages = fetched
        /\ SharedOnSameInput.recs = records

\* the records of the data rows of pages 1..n, each with the url of its own
\* link, null for a row without a link
RECURSIVE OwnUrlRecords(_, _)
OwnUrlRecords(lst, n) ==
    IF n = 0 THEN << >>
    ELSE OwnUrlRecords(lst, n - 1) \o
         (IF HasTable(PageAt(lst, n)) THEN ScanRows(PageAt(lst, n), {}).recs
          ELSE << >>)

\* C37: in scrape_data of module_2 a data row without a /result/<digits> link
\* yields a record with a null url whatever rows were processed before it,
\* and no record of its page is lost: self.data holds one record for every
\* data row of the pages processed, each with the url of its own link.
C37_NoLinkRowYieldsNullUrl ==
    data = OwnUrlRecords(listing, scraper_page - 1)

\* the request of thread t is inside the with block of pull_data
InCritical(t) == req_pc[t] \in {"call", "step", "completed", "raised"}

\* C38: the executions of run_full_pipeline started by POST /pull_data never
\* overlap: at most one request is inside the critical section of
\* pipeline_lock, and it is the one that holds the lock.
C38_PipelineRunsExclusive ==
    /\ Cardinality({ t \in Threads : InCritical(t) }) <= 1
    /\ \A t \in Threads : InCritical(t) => pipeline_lock = t

\* one request runs a step of the pipeline while another, which found the
\* lock free at the test, waits at the with statement
C38_Witness ==
    \E t, u \in Threads :
        /\ req_pc[t] = "step"
        /\ steps # << >>
        /\ req_pc[u] = "with"
        /\ waited[u]

\* some request is inside the with block of pull_data
PullInProgress == \E u \in Threads : InCritical(u)

\* C39: pipeline_lock is released whenever a /pull_data request finishes, by
\* return or because run_full_pipeline raised (500): the lock is held only
\* by a request that is inside the with block, so a request handled when no
\* pull is in progress is not answered 409; and /update_analysis neither
\* acquires nor releases the lock.
C39_LockNeverSticks ==
    /\ [](pipeline_lock # 0 => InCritical(pipeline_lock))
    /\ [][\A t \in Threads :
            /\ (req_pc[t] \in {"completed", "raised"} /\ req_pc'[t] = "idle") =>
                    pipeline_lock' = 0 /\ reply'[t].status \in {200, 500}
            /\ (req_pc[t] \in {"check", "update"} /\ reply'[t].status = 409) =>
                    PullInProgress
            /\ (req_pc[t] = "update" /\ req_pc'[t] = "idle") =>
                    /\ pipeline_lock' = pipeline_lock
                    /\ reply'[t].status = 409 <=> PullInProgress
                    /\ reply'[t].status = 200 <=> ~PullInProgress
      ]_vars

\* a pull whose pipeline raised was answered 500 and left the lock free:
\* another pull holds it now
C39_Witness ==
    \E t, u \in Threads :
        /\ t # u
        /\ reply[t] = ErrorReply
        /\ req_pc[t] = "idle"
        /\ req_pc[u] = "call"
        /\ pipeline_lock = u
        /\ pulls = MaxPulls

=============================================================================
